---- MODULE Spec2Model ----
(***************************************************************************)
(* Verification model of the HSF training-content analyzer:                *)
(*   - GeminiClient._parse_json_response / analyze_content                 *)
(*     (src/hsf_training_agent/src/ai/gemini_client.py)                    *)
(*   - HSFTrainingAnalyzer.analyze_repository and get_analysis_summary     *)
(*     (src/hsf_training_agent/src/analyzer.py)                            *)
(*   - NotebookParser.load_notebook / analyze_notebook_structure           *)
(*     (src/hsf_training_agent/src/processors/notebook_parser.py)          *)
(***************************************************************************)
EXTENDS Integers, Sequences, FiniteSets, TLC

(***************************************************************************)
(* Python values that a backend response can parse to.  Every value is a   *)
(* record of the same shape, tagged by t:                                  *)
(*   "none" None (also JSON null), "num" a number, "str" a string,         *)
(*   "list" a list, "obj" a dict.  kv holds a dict's <<key, value>> pairs. *)
(***************************************************************************)
PyNone == [t |-> "none", n |-> 0, s |-> "", items |-> <<>>, kv |-> {}]

PyNum(x) == [t |-> "num", n |-> x, s |-> "", items |-> <<>>, kv |-> {}]

PyStr(x) == [t |-> "str", n |-> 0, s |-> x, items |-> <<>>, kv |-> {}]

PyList(x) == [t |-> "list", n |-> 0, s |-> "", items |-> x, kv |-> {}]

PyDict(x) == [t |-> "obj", n |-> 0, s |-> "", items |-> <<>>, kv |-> x]

\* bool(v): None, 0, "", [] and {} are falsy.
Truthy(v) ==
    CASE v.t = "none" -> FALSE
      [] v.t = "num"  -> v.n # 0
      [] v.t = "str"  -> v.s # ""
      [] v.t = "list" -> v.items # <<>>
      [] v.t = "obj"  -> v.kv # {}

\* key in v, for a dict v.
HasKey(v, key) == \E p \in v.kv : p[1] = key

\* v[key] for a dict v that has the key.
Item(v, key) == (CHOOSE p \in v.kv : p[1] = key)[2]

\* v.get(key, default) for a dict v.
Get(v, key, default) == IF HasKey(v, key) THEN Item(v, key) ELSE default

\* d[key] = value: a later duplicate key replaces the earlier one.
SetItem(kv, key, value) == {p \in kv : p[1] # key} \cup {<<key, value>>}

(***************************************************************************)
(* Response text.  A text is a sequence of lines; a line is one of the     *)
(* strings below.  Tokens(line) is the lexical content json.loads sees in  *)
(* the line; whitespace between tokens is insignificant to JSON.           *)
(***************************************************************************)
Tok(k, s, n) == [k |-> k, s |-> s, n |-> n]

Punct(c) == Tok("punct", c, 0)

StrTok(x) == Tok("str", x, 0)

NumTok(x) == Tok("num", "", x)

BadTok == Tok("bad", "", 0)

EmptySuggestionsLine == "{\"suggestions\": []}"

TwoSuggestionsLine ==
    "{\"suggestions\": [{\"type\": \"software_update\", \"priority\": \"high\"}, {}]}"

Tokens(line) ==
    CASE line = "" -> <<>>
      [] line = "{" -> <<Punct("{")>>
      [] line = "}" -> <<Punct("}")>>
      [] line = "{}" -> <<Punct("{"), Punct("}")>>
      [] line = "5" -> <<NumTok(5)>>
      [] line = EmptySuggestionsLine ->
            <<Punct("{"), StrTok("suggestions"), Punct(":"),
              Punct("["), Punct("]"), Punct("}")>>
      [] line = TwoSuggestionsLine ->
            <<Punct("{"), StrTok("suggestions"), Punct(":"), Punct("["),
              Punct("{"), StrTok("type"), Punct(":"), StrTok("software_update"),
              Punct(","), StrTok("priority"), Punct(":"), StrTok("high"),
              Punct("}"), Punct(","), Punct("{"), Punct("}"),
              Punct("]"), Punct("}")>>
      [] OTHER -> <<BadTok>>

\* The fence marker of three backquotes is written as three apostrophes.
FenceJsonLine == "'''json"

FenceBraceLine == "'''{"

FenceLine == "'''"

IndentedFenceLine == "  '''"

ProseLine == "Here is my analysis."

\* str.strip() of one line.
Strip(line) == IF line = IndentedFenceLine THEN FenceLine ELSE line

\* Mutant: a bare fence line also opens a block.
IsOpeningFence_AnyFence(line) ==
    Strip(line) \in {FenceJsonLine, FenceBraceLine, FenceLine}

\* line.strip().startswith(fence + 'json') or line.strip().startswith(fence + '{')
IsOpeningFence(line) == Strip(line) \in {FenceJsonLine, FenceBraceLine}

\* Mutant: the closing fence is compared without strip().
IsClosingFence_NoStrip(line) == line = FenceLine

\* line.strip() == fence
IsClosingFence(line) == Strip(line) = FenceLine

RECURSIVE Flatten(_)
Flatten(lines) ==
    IF lines = <<>> THEN <<>> ELSE Tokens(Head(lines)) \o Flatten(Tail(lines))

(***************************************************************************)
(* json.loads: a recursive-descent parse of the token sequence.            *)
(* Each Parse* returns [ok, v, i]: success, the value, the next position.  *)
(***************************************************************************)
ParseFail == [ok |-> FALSE, v |-> PyNone, i |-> 0]

ParseOk(v, i) == [ok |-> TRUE, v |-> v, i |-> i]

IsPunct(toks, i, c) == i <= Len(toks) /\ toks[i] = Punct(c)

RECURSIVE ParseValue(_, _)
RECURSIVE ParseMembers(_, _, _)
RECURSIVE ParseItems(_, _, _)

ParseValue(toks, i) ==
    IF i > Len(toks) THEN ParseFail
    ELSE CASE toks[i].k = "num" -> ParseOk(PyNum(toks[i].n), i + 1)
           [] toks[i].k = "str" -> ParseOk(PyStr(toks[i].s), i + 1)
           [] toks[i] = Punct("{") ->
                 IF IsPunct(toks, i + 1, "}") THEN ParseOk(PyDict({}), i + 2)
                 ELSE ParseMembers(toks, i + 1, {})
           [] toks[i] = Punct("[") ->
                 IF IsPunct(toks, i + 1, "]") THEN ParseOk(PyList(<<>>), i + 2)
                 ELSE ParseItems(toks, i + 1, <<>>)
           [] OTHER -> ParseFail

\* "key" : value, then "," and more members, or "}".
ParseMembers(toks, i, kv) ==
    IF i + 1 > Len(toks) \/ toks[i].k # "str" \/ ~IsPunct(toks, i + 1, ":")
    THEN ParseFail
    ELSE LET r == ParseValue(toks, i + 2) IN
         IF ~r.ok THEN ParseFail
         ELSE LET kv2 == SetItem(kv, toks[i].s, r.v) IN
              IF IsPunct(toks, r.i, "}") THEN ParseOk(PyDict(kv2), r.i + 1)
              ELSE IF IsPunct(toks, r.i, ",") THEN ParseMembers(toks, r.i + 1, kv2)
              ELSE ParseFail

\* value, then "," and more items, or "]".
ParseItems(toks, i, items) ==
    LET r == ParseValue(toks, i) IN
    IF ~r.ok THEN ParseFail
    ELSE LET items2 == Append(items, r.v) IN
         IF IsPunct(toks, r.i, "]") THEN ParseOk(PyList(items2), r.i + 1)
         ELSE IF IsPunct(toks, r.i, ",") THEN ParseItems(toks, r.i + 1, items2)
         ELSE ParseFail

\* json.loads(text): ok = FALSE stands for json.JSONDecodeError.
JsonLoads(lines) ==
    LET toks == Flatten(lines)
        r    == ParseValue(toks, 1)
    IN IF r.ok /\ r.i = Len(toks) + 1 THEN [ok |-> TRUE, v |-> r.v]
       ELSE [ok |-> FALSE, v |-> PyNone]

(***************************************************************************)
(* GeminiClient._parse_json_response                                       *)
(***************************************************************************)
\* response_text.strip().split('\n'): the text's own leading whitespace goes;
\* an empty text splits into one empty line.
StripSplit(text) ==
    IF text = <<>> THEN <<"">> ELSE <<Strip(Head(text))>> \o Tail(text)

\* The for loop of lines 45-53 from line i on: json_lines once the loop ends.
RECURSIVE ScanLines(_, _, _, _)
ScanLines(lines, i, in_json_block, json_lines) ==
    IF i > Len(lines) THEN json_lines
    ELSE IF IsOpeningFence(lines[i]) THEN ScanLines(lines, i + 1, TRUE, json_lines)
    ELSE IF IsClosingFence(lines[i]) /\ in_json_block THEN json_lines
    ELSE IF in_json_block THEN ScanLines(lines, i + 1, TRUE, Append(json_lines, lines[i]))
    ELSE ScanLines(lines, i + 1, in_json_block, json_lines)

ExtractJsonLines(text) == ScanLines(StripSplit(text), 1, FALSE, <<>>)

ParseJsonResponse(text) ==
    LET direct == JsonLoads(text) IN
    IF direct.ok THEN direct.v
    ELSE LET json_lines == ExtractJsonLines(text) IN
         IF json_lines # <<>> /\ JsonLoads(json_lines).ok
         THEN JsonLoads(json_lines).v
         ELSE PyNone

\* analyze_content, lines 87-101, given what generate_content did:
\* outcome.raised for an exception, otherwise outcome.text is response.text.
AnalyzeContent(outcome) ==
    IF outcome.raised THEN PyNone
    ELSE IF outcome.text = <<>> THEN PyNone
    ELSE LET parsed_response == ParseJsonResponse(outcome.text) IN
         IF Truthy(parsed_response) THEN parsed_response ELSE PyNone

(***************************************************************************)
(* Repository content.  A file of the content map is described by its      *)
(* extension, what its text is (body), the trimmed length of its raw text  *)
(* (raw) and, for a loadable notebook, the trimmed length of the markdown  *)
(* text plus code-cell comments built from it (md).  The position of a     *)
(* file in the content map stands for its path.                            *)
(*   body "text"         Markdown or plain text                            *)
(*        "invalid_json" .ipynb text that json.loads rejects               *)
(*        "not_notebook" .ipynb text holding JSON that has no cells        *)
(*        "notebook"     .ipynb text holding a notebook                    *)
(***************************************************************************)
MaxFiles == 3

MinContentLength == 100

File(ext, body, raw, md) == [ext |-> ext, body |-> body, raw |-> raw, md |-> md]

ContentKinds ==
    { File(".txt", "text", MinContentLength - 1, 0),
      File(".md", "text", MinContentLength, 0),
      File(".ipynb", "notebook", MinContentLength + 50, MinContentLength),
      File(".ipynb", "invalid_json", MinContentLength + 50, 0),
      File(".ipynb", "not_notebook", MinContentLength, 0) }

ContentMaps == UNION {[1..n -> ContentKinds] : n \in 0..MaxFiles}

\* NotebookParser.load_notebook: "none" when json.loads fails, otherwise what
\* nbformat.from_dict returns, which is the converted JSON, not validated.
LoadNotebook(f) ==
    CASE f.body = "invalid_json" -> "none"
      [] f.body = "not_notebook" -> "no_cells"
      [] OTHER -> "notebook"

NotebookStructureKeys ==
    {"file_path", "metadata", "statistics", "structure", "content_type"}

MarkdownStructureKeys ==
    {"file_path", "metadata", "statistics", "structure", "content_type"}

TextStructureKeys == {"file_path", "content_type", "statistics"}

\* NotebookParser.analyze_notebook_structure: the keys of the returned
\* structure, or raised when notebook.cells does not exist.
AnalyzeNotebookStructure(f) ==
    CASE LoadNotebook(f) = "none" -> [raised |-> FALSE, keys |-> {"error"}]
      [] LoadNotebook(f) = "no_cells" -> [raised |-> TRUE, keys |-> {}]
      [] OTHER -> [raised |-> FALSE, keys |-> NotebookStructureKeys]

\* One entry of processed_content.  error: the entry has an 'error' key;
\* structure: the keys of entry['structure']; payload: the trimmed length of
\* entry['processed_content'].
Processed(error, structure, payload, content_type) ==
    [error |-> error, structure |-> structure, payload |-> payload,
     content_type |-> content_type]

\* _process_single_content: raised, or the returned entry.
ProcessSingleContent(f) ==
    IF f.ext = ".ipynb"
    THEN LET st == AnalyzeNotebookStructure(f) IN
         IF st.raised THEN [raised |-> TRUE, entry |-> Processed(FALSE, {}, 0, "")]
         ELSE [raised |-> FALSE,
               entry |-> Processed(FALSE, st.keys,
                            IF LoadNotebook(f) = "notebook" THEN f.md ELSE f.raw,
                            IF "content_type" \in st.keys THEN "classified"
                            ELSE "unknown")]
    ELSE IF f.ext \in {".md", ".rst"}
    THEN [raised |-> FALSE,
          entry |-> Processed(FALSE, MarkdownStructureKeys, f.raw, "classified")]
    ELSE [raised |-> FALSE,
          entry |-> Processed(FALSE, TextStructureKeys, f.raw, "text")]

\* The body of the loop of _process_all_content for one file.
ProcessOne(f) ==
    LET r == ProcessSingleContent(f) IN
    IF r.raised THEN Processed(TRUE, {}, f.raw, "") ELSE r.entry

\* Mutant: the length check skips a payload of exactly the minimum length.
SkipsAnalysis_LE(content_data) ==
    content_data.error \/ content_data.payload <= MinContentLength

\* Mutant: the 'error' entry is not checked.
SkipsAnalysis_NoErrorCheck(content_data) ==
    content_data.payload < MinContentLength

\* _analyze_with_ai, lines 202-215: the file is skipped without a backend call.
SkipsAnalysis(content_data) ==
    content_data.error \/ content_data.payload < MinContentLength

(***************************************************************************)
(* What the statements of analyzer.py do on a stored analysis result,      *)
(* which is None or whatever value the response parsed to.                 *)
(***************************************************************************)
\* 'suggestions' in analysis: "raise" is the TypeError of a number.
ContainsSuggestions(analysis) ==
    CASE analysis.t = "obj" ->
            IF HasKey(analysis, "suggestions") THEN "yes" ELSE "no"
      [] analysis.t = "list" ->
            IF \E j \in 1..Len(analysis.items) :
                  analysis.items[j] = PyStr("suggestions")
            THEN "yes" ELSE "no"
      [] analysis.t = "str" -> IF analysis.s = "suggestions" THEN "yes" ELSE "no"
      [] OTHER -> "raise"

\* len(v): -1 is the TypeError of a value without a length.
PyLen(v) ==
    CASE v.t = "list" -> Len(v.items)
      [] v.t = "obj" -> Cardinality(v.kv)
      [] OTHER -> -1

\* _create_github_issues, lines 237-242, for one file: "raise" (an exception
\* outside the try block), "continue" (nothing to file) or "file".
IssueGate(analysis) ==
    IF ~Truthy(analysis) THEN "continue"
    ELSE IF ContainsSuggestions(analysis) = "raise" THEN "raise"
    ELSE IF ContainsSuggestions(analysis) = "no" THEN "continue"
    ELSE IF analysis.t # "obj" THEN "raise"
    ELSE IF ~Truthy(Item(analysis, "suggestions")) THEN "continue"
    ELSE "file"

\* analysis and analysis.get('suggestions'), lines 274 and 326:
\* "raise" is the AttributeError of a value that is no dict.
HasSuggestions(analysis) ==
    IF ~Truthy(analysis) THEN "no"
    ELSE IF analysis.t # "obj" THEN "raise"
    ELSE IF Truthy(Get(analysis, "suggestions", PyNone)) THEN "yes" ELSE "no"

\* len(result.get('suggestions', [])) ... if result, lines 74-78, for one
\* result: its term of the sum, or -1 when the expression raises.
SuggestionCount(result) ==
    IF ~Truthy(result) THEN 0
    ELSE IF result.t # "obj" THEN -1
    ELSE PyLen(Get(result, "suggestions", PyList(<<>>)))

RECURSIVE SumSeq(_)
SumSeq(ns) == IF ns = <<>> THEN 0 ELSE Head(ns) + SumSeq(Tail(ns))

\* The sum of lines 74-78 over all results; raised when a term raises.
TotalSuggestions(results) ==
    LET terms == [j \in 1..Len(results) |-> SuggestionCount(results[j])] IN
    IF \E j \in 1..Len(terms) : terms[j] < 0
    THEN [raised |-> TRUE, n |-> 0]
    ELSE [raised |-> FALSE, n |-> SumSeq(terms)]

(***************************************************************************)
(* get_analysis_summary                                                    *)
(***************************************************************************)
NoCounts == [x \in {} |-> 0]

\* counts[k] = counts.get(k, 0) + 1
Increment(counts, k) ==
    [x \in DOMAIN counts \cup {k} |->
        IF x = k THEN (IF k \in DOMAIN counts THEN counts[k] ELSE 0) + 1
        ELSE counts[x]]

\* Mutant: a suggestion without the key is not counted.
RECURSIVE CountBy_SkipMissing(_, _, _, _)
CountBy_SkipMissing(suggestions, key, default, counts) ==
    IF suggestions = <<>> THEN counts
    ELSE CountBy_SkipMissing(Tail(suggestions), key, default,
            IF HasKey(Head(suggestions), key)
            THEN Increment(counts, Item(Head(suggestions), key))
            ELSE counts)

\* The counting loops of lines 311-313 and 317-319.
RECURSIVE CountBy(_, _, _, _)
CountBy(suggestions, key, default, counts) ==
    IF suggestions = <<>> THEN counts
    ELSE CountBy(Tail(suggestions), key, default,
                 Increment(counts, Get(Head(suggestions), key, default)))

\* all_suggestions after the loop of lines 306-309, from file i on.
RECURSIVE AllSuggestions(_, _)
AllSuggestions(ai_results, i) ==
    IF i > Len(ai_results) THEN <<>>
    ELSE IF Truthy(ai_results[i]) /\ ContainsSuggestions(ai_results[i]) = "yes"
         THEN Item(ai_results[i], "suggestions").items
              \o AllSuggestions(ai_results, i + 1)
         ELSE AllSuggestions(ai_results, i + 1)

\* The statements of get_analysis_summary that raise on a value of the wrong
\* shape: 'in' on a number, extend with a value that is no list, .get on a
\* suggestion or a result that is no dict.
SummaryRaises(ai_results) ==
    \E i \in 1..Len(ai_results) :
        /\ Truthy(ai_results[i])
        /\ \/ ContainsSuggestions(ai_results[i]) = "raise"
           \/ ai_results[i].t # "obj"
           \/ /\ HasKey(ai_results[i], "suggestions")
              /\ LET sg == Item(ai_results[i], "suggestions") IN
                 \/ sg.t # "list"
                 \/ \E j \in 1..Len(sg.items) : sg.items[j].t # "obj"

\* Mutant: files_analyzed counts only the files that have a result.
Report_CountsAnalyzed(status, error, files_analyzed, total_suggestions, content_structure, ai_analysis, github_issues, summary_issue) ==
    [status |-> status, error |-> error,
     files_analyzed |-> Cardinality({i \in DOMAIN ai_analysis : ai_analysis[i] # PyNone}),
     total_suggestions |-> total_suggestions,
     content_structure |-> content_structure, ai_analysis |-> ai_analysis,
     github_issues |-> github_issues, summary_issue |-> summary_issue]

Report(status, error, files_analyzed, total_suggestions, content_structure, ai_analysis, github_issues, summary_issue) ==
    [status |-> status, error |-> error, files_analyzed |-> files_analyzed,
     total_suggestions |-> total_suggestions,
     content_structure |-> content_structure, ai_analysis |-> ai_analysis,
     github_issues |-> github_issues, summary_issue |-> summary_issue]

\* A result without the fields of a completed report: status "absent" is a
\* mapping that has no 'status' key.
PlainResult(status, error) == Report(status, error, 0, 0, <<>>, <<>>, <<>>, "")

Summary(state, error, total_files, total_suggestions, suggestion_types, priority_distribution, files_with_suggestions, github_issues_created) ==
    [state |-> state, error |-> error, total_files |-> total_files,
     total_suggestions |-> total_suggestions,
     suggestion_types |-> suggestion_types,
     priority_distribution |-> priority_distribution,
     files_with_suggestions |-> files_with_suggestions,
     github_issues_created |-> github_issues_created]

\* state "none": not computed; "error": the error mapping; "raised": the call
\* raised; "stats": the statistics mapping.
PlainSummary(state, error) == Summary(state, error, 0, 0, NoCounts, NoCounts, 0, 0)

SummaryStatsOf(analysis_results_) ==
    LET ai_results      == analysis_results_.ai_analysis
        all_suggestions == AllSuggestions(ai_results, 1)
    IN Summary("stats", "",
               analysis_results_.files_analyzed,
               Len(all_suggestions),
               CountBy(all_suggestions, "type", PyStr("unknown"), NoCounts),
               CountBy(all_suggestions, "priority", PyStr("medium"), NoCounts),
               Cardinality({i \in 1..Len(ai_results) :
                               HasSuggestions(ai_results[i]) = "yes"}),
               Cardinality({i \in 1..Len(analysis_results_.github_issues) :
                               analysis_results_.github_issues[i] # ""}))

\* Mutant: only a 'failed' status is refused.
StatusIsCompleted_NotFailed(analysis_results_) ==
    analysis_results_.status # "failed"

StatusIsCompleted(analysis_results_) == analysis_results_.status = "completed"

GetAnalysisSummary(analysis_results_) ==
    IF ~StatusIsCompleted(analysis_results_)
    THEN PlainSummary("error", "Analysis not completed")
    ELSE IF SummaryRaises(analysis_results_.ai_analysis)
    THEN PlainSummary("raised", "")
    ELSE SummaryStatsOf(analysis_results_)

(***************************************************************************)
(* Text.  A Python str is a sequence of characters, each a one-character   *)
(* string; Backquote stands for the backquote character.  The operators    *)
(* below are the str methods the parsers use.                              *)
(***************************************************************************)
Newline == "\n"

Tab == "\t"

Backquote == "BQ"

UpperChars == <<"A", "B", "C", "D", "E", "F", "G", "H", "I", "J", "K", "L", "M", "N", "O", "P", "Q", "R", "S", "T", "U", "V", "W", "X", "Y", "Z">>

LowerChars == <<"a", "b", "c", "d", "e", "f", "g", "h", "i", "j", "k", "l", "m", "n", "o", "p", "q", "r", "s", "t", "u", "v", "w", "x", "y", "z">>

DigitChars == {"0", "1", "2", "3", "4", "5", "6", "7", "8", "9"}

\* What \s matches.
IsSpace(c) == c \in {" ", Tab, Newline}

LowerChar(c) ==
    IF \E i \in 1..Len(UpperChars) : UpperChars[i] = c
    THEN LowerChars[CHOOSE i \in 1..Len(UpperChars) : UpperChars[i] = c]
    ELSE c

\* s.lower()
StrLower(s) == [i \in 1..Len(s) |-> LowerChar(s[i])]

\* The length of the longest prefix of s whose characters are all in cs.
RECURSIVE PrefixRun(_, _)
PrefixRun(s, cs) ==
    IF s # <<>> /\ Head(s) \in cs THEN 1 + PrefixRun(Tail(s), cs) ELSE 0

\* The length of the longest suffix of s whose characters are all in cs.
RECURSIVE SuffixRun(_, _)
SuffixRun(s, cs) ==
    IF s # <<>> /\ s[Len(s)] \in cs
    THEN 1 + SuffixRun(SubSeq(s, 1, Len(s) - 1), cs) ELSE 0

\* s.strip(cs)
StrStripChars(s, cs) ==
    LET a == PrefixRun(s, cs) IN
    IF a = Len(s) THEN <<>>
    ELSE SubSeq(s, a + 1, Len(s) - SuffixRun(s, cs))

\* s.strip()
StrStrip(s) == StrStripChars(s, {" ", Tab, Newline})

\* s[i - 1:].startswith(p), for a 1-based position i.
StartsAt(s, i, p) ==
    /\ i + Len(p) - 1 <= Len(s)
    /\ SubSeq(s, i, i + Len(p) - 1) = p

\* s.startswith(p)
StartsWith(s, p) == StartsAt(s, 1, p)

\* p in s
StrContains(s, p) == \E i \in 1..(Len(s) + 1) : StartsAt(s, i, p)

\* The 1-based position of the first occurrence of p in s at or after
\* position from, 0 when there is none.
StrFind(s, p, from) ==
    LET hits == {i \in from..(Len(s) + 1) : StartsAt(s, i, p)} IN
    IF hits = {} THEN 0 ELSE CHOOSE i \in hits : \A j \in hits : i <= j

\* s.split('\n')
RECURSIVE StrSplit(_)
StrSplit(s) ==
    LET i == StrFind(s, <<Newline>>, 1) IN
    IF i = 0 THEN <<s>>
    ELSE <<SubSeq(s, 1, i - 1)>> \o StrSplit(SubSeq(s, i + 1, Len(s)))

\* '\n'.join(lines)
RECURSIVE StrJoin(_)
StrJoin(lines) ==
    IF lines = <<>> THEN <<>>
    ELSE IF Len(lines) = 1 THEN lines[1]
    ELSE lines[1] \o <<Newline>> \o StrJoin(Tail(lines))

\* s.count('\n')
CountNewlines(s) == Cardinality({i \in 1..Len(s) : s[i] = Newline})

(***************************************************************************)
(* MarkdownParser.extract_headers                                          *)
(***************************************************************************)
\* The group counts k for which ^(#{k})\s+(.+)$ matches the line: k hashes,
\* then a whitespace character, then at least one more character.
AtxLevels(line) ==
    {k \in 1..6 :
        /\ k <= PrefixRun(line, {"#"})
        /\ Len(line) >= k + 2
        /\ IsSpace(line[k + 1])}

\* re.match(r'^(#{1,6})\s+(.+)$', line) matches.
AtxMatch(line) == AtxLevels(line) # {}

\* len(atx_match.group(1)): the quantifier is greedy.
AtxLevel(line) ==
    CHOOSE k \in AtxLevels(line) : \A m \in AtxLevels(line) : m <= k

\* atx_match.group(2).strip(): \s+ takes all the whitespace it can and gives
\* one character back when nothing else is left for (.+).
AtxText(line) ==
    LET rest == SubSeq(line, AtxLevel(line) + 1, Len(line))
        w    == PrefixRun(rest, {" ", Tab, Newline})
        g2   == IF w = Len(rest) THEN SubSeq(rest, Len(rest), Len(rest))
                ELSE SubSeq(rest, w + 1, Len(rest))
    IN StrStrip(g2)

Header(level, text, line) == [level |-> level, text |-> text, line |-> line]

\* The loop of lines 55-65 from line i on.
RECURSIVE ExtractHeadersFrom(_, _)
ExtractHeadersFrom(lines, i) ==
    IF i > Len(lines) THEN <<>>
    ELSE IF AtxMatch(lines[i])
    THEN <<Header(AtxLevel(lines[i]), AtxText(lines[i]), i)>>
         \o ExtractHeadersFrom(lines, i + 1)
    ELSE ExtractHeadersFrom(lines, i + 1)

ExtractHeaders(content) == ExtractHeadersFrom(StrSplit(content), 1)

(***************************************************************************)
(* MarkdownParser.extract_sections                                         *)
(***************************************************************************)
\* Mutant: only a later header of the same level ends the section.
SectionEnd_SameLevel(headers, i, n_lines) ==
    LET later == {j \in (i + 1)..Len(headers) :
                     headers[j].level = headers[i].level} IN
    IF later = {} THEN n_lines
    ELSE headers[CHOOSE j \in later : \A m \in later : j <= m].line - 1

\* Mutant: the last later header of the same or a smaller level number ends
\* the section, not the first.
SectionEnd_LastShallower(headers, i, n_lines) ==
    LET later == {j \in (i + 1)..Len(headers) :
                     headers[j].level <= headers[i].level} IN
    IF later = {} THEN n_lines
    ELSE headers[CHOOSE j \in later : \A m \in later : j >= m].line - 1

\* end_line of lines 178-182 for header i.
SectionEnd(headers, i, n_lines) ==
    LET later == {j \in (i + 1)..Len(headers) :
                     headers[j].level <= headers[i].level} IN
    IF later = {} THEN n_lines
    ELSE headers[CHOOSE j \in later : \A m \in later : j <= m].line - 1

Section(title, level, content, start_line, end_line) ==
    [title |-> title, level |-> level, content |-> content,
     start_line |-> start_line, end_line |-> end_line]

\* Mutant: the first header gets no section.
ExtractSections_SkipFirst(content) ==
    LET headers == ExtractHeaders(content)
        lines   == StrSplit(content)
    IN [i \in 1..(Len(headers) - 1) |->
          LET end_line == SectionEnd(headers, i + 1, Len(lines)) IN
          Section(headers[i + 1].text, headers[i + 1].level,
                  StrJoin(SubSeq(lines, headers[i + 1].line, end_line)),
                  headers[i + 1].line, end_line)]

ExtractSections(content) ==
    LET headers == ExtractHeaders(content)
        lines   == StrSplit(content)
    IN [i \in 1..Len(headers) |->
          LET end_line == SectionEnd(headers, i, Len(lines)) IN
          Section(headers[i].text, headers[i].level,
                  StrJoin(SubSeq(lines, headers[i].line, end_line)),
                  headers[i].line, end_line)]

(***************************************************************************)
(* MarkdownParser.extract_metadata                                         *)
(***************************************************************************)
FrontmatterOpen == <<"-", "-", "-", Newline>>

FrontmatterClose == <<Newline, "-", "-", "-", Newline>>

\* Where the closing delimiter of re.match(r'^---\n(.*?)\n---\n', content,
\* re.DOTALL) starts, 0 when the pattern does not match: the group is lazy,
\* so it ends at the first closing delimiter after the opening one.
FrontmatterEnd(content) ==
    IF StartsWith(content, FrontmatterOpen)
    THEN StrFind(content, FrontmatterClose, Len(FrontmatterOpen) + 1)
    ELSE 0

\* frontmatter_match.group(1)
Frontmatter(content) ==
    SubSeq(content, Len(FrontmatterOpen) + 1, FrontmatterEnd(content) - 1)

\* key.strip() of line.split(':', 1)
MetadataKey(line) == StrStrip(SubSeq(line, 1, StrFind(line, <<":">>, 1) - 1))

\* value.strip().strip('"\'') of line.split(':', 1)
MetadataValue(line) ==
    StrStripChars(StrStrip(SubSeq(line, StrFind(line, <<":">>, 1) + 1, Len(line))),
                  {"\"", "'"})

\* The loop of lines 43-46 from line i on; metadata is a set of <<key, value>>
\* pairs with one pair per key.
RECURSIVE MetadataFrom(_, _, _)
MetadataFrom(lines, i, metadata) ==
    IF i > Len(lines) THEN metadata
    ELSE IF StrContains(lines[i], <<":">>)
    THEN MetadataFrom(lines, i + 1,
            SetItem(metadata, MetadataKey(lines[i]), MetadataValue(lines[i])))
    ELSE MetadataFrom(lines, i + 1, metadata)

ExtractMetadata(content) ==
    IF FrontmatterEnd(content) # 0
    THEN MetadataFrom(StrSplit(Frontmatter(content)), 1, {})
    ELSE {}

(***************************************************************************)
(* MarkdownParser.extract_code_blocks                                      *)
(***************************************************************************)
Fence == <<Backquote, Backquote, Backquote>>

\* What \w matches.
WordChars ==
    {UpperChars[i] : i \in 1..Len(UpperChars)}
        \cup {LowerChars[i] : i \in 1..Len(LowerChars)}
        \cup DigitChars \cup {"_"}

TextLanguage == <<"t", "e", "x", "t">>

CodeBlock(language, code, line, type) ==
    [language |-> language, code |-> code, line |-> line, type |-> type]

\* re.finditer(fence (\w+)? \n (.*?) fence, content, re.DOTALL) from position
\* p on: at a fence the language is the longest run of word characters, a
\* newline must follow it, and the lazy group ends at the next fence; a
\* failed attempt resumes one character further, a match after its end.
RECURSIVE FencedFrom(_, _)
FencedFrom(content, p) ==
    LET f == StrFind(content, Fence, p) IN
    IF f = 0 THEN <<>>
    ELSE LET w  == PrefixRun(SubSeq(content, f + 3, Len(content)), WordChars)
             nl == f + 3 + w
             q  == IF nl <= Len(content) /\ content[nl] = Newline
                   THEN StrFind(content, Fence, nl + 1) ELSE 0
         IN IF q = 0 THEN FencedFrom(content, f + 1)
            ELSE <<CodeBlock(IF w = 0 THEN TextLanguage
                             ELSE SubSeq(content, f + 3, f + 2 + w),
                             StrStrip(SubSeq(content, nl + 1, q - 1)),
                             CountNewlines(SubSeq(content, 1, f - 1)) + 1,
                             "fenced")>>
                 \o FencedFrom(content, q + 3)

FourSpaces == <<" ", " ", " ", " ">>

\* line.startswith('    ') or line.startswith('\t')
IsIndented(line) == StartsWith(line, FourSpaces) \/ StartsWith(line, <<Tab>>)

\* line[4:] if line.startswith('    ') else line[1:]
Dedent(line) ==
    IF StartsWith(line, FourSpaces) THEN SubSeq(line, 5, Len(line))
    ELSE SubSeq(line, 2, Len(line))

IndentedBlock(current_block, block_start) ==
    CodeBlock(TextLanguage, StrJoin(current_block), block_start, "indented")

\* Mutant: a run that reaches the end of the input is dropped.
RECURSIVE IndentedFrom_NoFinal(_, _, _, _, _)
IndentedFrom_NoFinal(lines, i, in_code_block, current_block, block_start) ==
    IF i > Len(lines) THEN <<>>
    ELSE IF IsIndented(lines[i])
    THEN IndentedFrom_NoFinal(lines, i + 1, TRUE,
                              Append(current_block, Dedent(lines[i])),
                              IF in_code_block THEN block_start ELSE i)
    ELSE IF in_code_block /\ current_block # <<>>
    THEN <<IndentedBlock(current_block, block_start)>>
         \o IndentedFrom_NoFinal(lines, i + 1, FALSE, <<>>, block_start)
    ELSE IndentedFrom_NoFinal(lines, i + 1, FALSE, current_block, block_start)

\* The loop of lines 93-108 from line i on, then lines 111-117.
RECURSIVE IndentedFrom(_, _, _, _, _)
IndentedFrom(lines, i, in_code_block, current_block, block_start) ==
    IF i > Len(lines)
    THEN IF in_code_block /\ current_block # <<>>
         THEN <<IndentedBlock(current_block, block_start)>> ELSE <<>>
    ELSE IF IsIndented(lines[i])
    THEN IndentedFrom(lines, i + 1, TRUE,
                      Append(current_block, Dedent(lines[i])),
                      IF in_code_block THEN block_start ELSE i)
    ELSE IF in_code_block /\ current_block # <<>>
    THEN <<IndentedBlock(current_block, block_start)>>
         \o IndentedFrom(lines, i + 1, FALSE, <<>>, block_start)
    ELSE IndentedFrom(lines, i + 1, FALSE, current_block, block_start)

ExtractCodeBlocks(content) ==
    FencedFrom(content, 1) \o IndentedFrom(StrSplit(content), 1, FALSE, <<>>, 0)

(***************************************************************************)
(* MarkdownParser._determine_content_type                                  *)
(***************************************************************************)
TypeKey == <<"t", "y", "p", "e">>

ExerciseWords == {<<"e", "x", "e", "r", "c", "i", "s", "e">>, <<"c", "h", "a", "l", "l", "e", "n", "g", "e">>}

SolutionWords == {<<"s", "o", "l", "u", "t", "i", "o", "n">>, <<"a", "n", "s", "w", "e", "r">>}

IntroductionWords == {<<"i", "n", "t", "r", "o", "d", "u", "c", "t", "i", "o", "n">>}

TutorialWithExercises == <<"t", "u", "t", "o", "r", "i", "a", "l", "_", "w", "i", "t", "h", "_", "e", "x", "e", "r", "c", "i", "s", "e", "s">>

Tutorial == <<"t", "u", "t", "o", "r", "i", "a", "l">>

CodeExample == <<"c", "o", "d", "e", "_", "e", "x", "a", "m", "p", "l", "e">>

Introduction == <<"i", "n", "t", "r", "o", "d", "u", "c", "t", "i", "o", "n">>

Documentation == <<"d", "o", "c", "u", "m", "e", "n", "t", "a", "t", "i", "o", "n">>

\* any(w in h['text'].lower() for w in words, for h in headers)
AnyHeaderHas(headers, words) ==
    \E i \in 1..Len(headers), w \in words :
        StrContains(StrLower(headers[i].text), w)

\* 'type' in metadata
HasType(metadata) == \E p \in metadata : p[1] = TypeKey

\* Mutant: exercises are looked at before the declared type.
DetermineContentType_ExercisesFirst(metadata, headers, code_blocks) ==
    IF AnyHeaderHas(headers, ExerciseWords) /\ AnyHeaderHas(headers, SolutionWords)
    THEN TutorialWithExercises
    ELSE IF AnyHeaderHas(headers, ExerciseWords) THEN Tutorial
    ELSE IF HasType(metadata) THEN (CHOOSE p \in metadata : p[1] = TypeKey)[2]
    ELSE IF Len(code_blocks) > 0 THEN CodeExample
    ELSE IF AnyHeaderHas(headers, IntroductionWords) THEN Introduction
    ELSE Documentation

DetermineContentType(metadata, headers, code_blocks) ==
    IF HasType(metadata) THEN (CHOOSE p \in metadata : p[1] = TypeKey)[2]
    ELSE IF AnyHeaderHas(headers, ExerciseWords) /\ AnyHeaderHas(headers, SolutionWords)
    THEN TutorialWithExercises
    ELSE IF AnyHeaderHas(headers, ExerciseWords) THEN Tutorial
    ELSE IF Len(code_blocks) > 0 THEN CodeExample
    ELSE IF AnyHeaderHas(headers, IntroductionWords) THEN Introduction
    ELSE Documentation

(***************************************************************************)
(* MarkdownParser.analyze_content_structure.  The links and the word count *)
(* of the returned mapping are left out: nothing else reads them.          *)
(***************************************************************************)
Analysis(metadata, headers, code_blocks, sections, statistics, content_type) ==
    [metadata |-> metadata, headers |-> headers, code_blocks |-> code_blocks,
     sections |-> sections, statistics |-> statistics,
     content_type |-> content_type]

Statistics(lines, headers, code_blocks, sections) ==
    [lines |-> lines, headers |-> headers, code_blocks |-> code_blocks,
     sections |-> sections]

\* The value of md_analysis before analyze_content_structure has run.
NoAnalysis == Analysis({}, <<>>, <<>>, <<>>, Statistics(0, 0, 0, 0), <<>>)

AnalyzeContentStructure(content) ==
    LET metadata    == ExtractMetadata(content)
        headers     == ExtractHeaders(content)
        code_blocks == ExtractCodeBlocks(content)
        sections    == ExtractSections(content)
    IN Analysis(metadata, headers, code_blocks, sections,
                Statistics(Len(StrSplit(content)), Len(headers),
                           Len(code_blocks), Len(sections)),
                DetermineContentType(metadata, headers, code_blocks))

(***************************************************************************)
(* NotebookParser (processors/notebook_parser.py).  A notebook is the       *)
(* sequence of its cells; a cell has a cell_type and a source string.       *)
(* Outputs, imports, code patterns, notebook metadata and the               *)
(* code_to_markdown_ratio are left out: neither the content type nor the    *)
(* complexity estimate reads them.                                          *)
(***************************************************************************)
Cell(cell_type, source) == [cell_type |-> cell_type, source |-> source]

\* len(source.split('\n'))
SourceLines(source) == CountNewlines(source) + 1

NotebookCodeBlock(cell_index, source) == [cell_index |-> cell_index, source |-> source, lines |-> SourceLines(source)]

\* extract_code_blocks: the code cells whose stripped source is not empty,
\* in cell order, with their 0-based cell index.
RECURSIVE NotebookCodeBlocksFrom(_, _)
NotebookCodeBlocksFrom(cells, i) ==
    IF i > Len(cells) THEN <<>>
    ELSE IF cells[i].cell_type = "code" /\ StrStrip(cells[i].source) # <<>>
         THEN <<NotebookCodeBlock(i - 1, cells[i].source)>> \o NotebookCodeBlocksFrom(cells, i + 1)
         ELSE NotebookCodeBlocksFrom(cells, i + 1)

NotebookExtractCodeBlocks(cells) == NotebookCodeBlocksFrom(cells, 1)

\* markdown_parts: every non-empty stripped markdown source followed by ''.
RECURSIVE MarkdownParts(_)
MarkdownParts(cells) ==
    IF cells = <<>> THEN <<>>
    ELSE IF Head(cells).cell_type = "markdown" /\ StrStrip(Head(cells).source) # <<>>
         THEN <<StrStrip(Head(cells).source), <<>>>> \o MarkdownParts(Tail(cells))
         ELSE MarkdownParts(Tail(cells))

\* extract_markdown_content
ExtractMarkdownContent(cells) == StrJoin(MarkdownParts(cells))

IntroductionTerms == {<<"i", "n", "t", "r", "o", "d", "u", "c", "t", "i", "o", "n">>, <<"o", "v", "e", "r", "v", "i", "e", "w">>, <<"g", "e", "t", "t", "i", "n", "g", " ", "s", "t", "a", "r", "t", "e", "d">>}

ExerciseTerms == {<<"e", "x", "e", "r", "c", "i", "s", "e">>, <<"c", "h", "a", "l", "l", "e", "n", "g", "e">>, <<"t", "r", "y">>, <<"p", "r", "a", "c", "t", "i", "c", "e">>}

ConclusionTerms == {<<"c", "o", "n", "c", "l", "u", "s", "i", "o", "n">>, <<"s", "u", "m", "m", "a", "r", "y">>, <<"w", "r", "a", "p", " ", "u", "p">>}

\* any(term in all_text for term in terms)
AnyTermIn(all_text, terms) == \E term \in terms : StrContains(all_text, term)

ComplexityKeywords == {<<"d", "e", "f", " ">>, <<"c", "l", "a", "s", "s", " ">>, <<"f", "o", "r", " ">>, <<"w", "h", "i", "l", "e", " ">>, <<"i", "f", " ">>}

\* [line.strip() for line in code.split('\n') if line.strip()]
RECURSIVE StrippedLines(_)
StrippedLines(lines) ==
    IF lines = <<>> THEN <<>>
    ELSE IF StrStrip(Head(lines)) # <<>>
         THEN <<StrStrip(Head(lines))>> \o StrippedLines(Tail(lines))
         ELSE StrippedLines(Tail(lines))

\* Mutant: ten non-blank lines already count as complex.
EstimateCodeComplexity_TenIsComplex(code) ==
    LET lines == StrippedLines(StrSplit(code)) IN
    IF Len(lines) = 0 THEN "empty"
    ELSE IF Len(lines) <= 3 THEN "simple"
    ELSE IF Len(lines) < 10
         THEN IF AnyTermIn(code, ComplexityKeywords) THEN "intermediate" ELSE "simple"
    ELSE "complex"

\* _estimate_code_complexity
EstimateCodeComplexity(code) ==
    LET lines == StrippedLines(StrSplit(code)) IN
    IF Len(lines) = 0 THEN "empty"
    ELSE IF Len(lines) <= 3 THEN "simple"
    ELSE IF Len(lines) <= 10
         THEN IF AnyTermIn(code, ComplexityKeywords) THEN "intermediate" ELSE "simple"
    ELSE "complex"

\* complexity_progression: one entry per code cell, empty ones included.
RECURSIVE ComplexityProgressionFrom(_, _)
ComplexityProgressionFrom(cells, i) ==
    IF i > Len(cells) THEN <<>>
    ELSE IF cells[i].cell_type = "code"
         THEN <<[cell_index |-> i - 1, complexity |-> EstimateCodeComplexity(cells[i].source)]>> \o ComplexityProgressionFrom(cells, i + 1)
         ELSE ComplexityProgressionFrom(cells, i + 1)

Progression(total_cells, has_introduction, has_exercises, has_conclusions, complexity_progression) == [total_cells |-> total_cells, has_introduction |-> has_introduction, has_exercises |-> has_exercises, has_conclusions |-> has_conclusions, complexity_progression |-> complexity_progression]

\* analyze_learning_progression
AnalyzeLearningProgression(cells) ==
    LET all_text == StrLower(ExtractMarkdownContent(cells)) IN
    Progression(Len(cells),
                AnyTermIn(all_text, IntroductionTerms),
                AnyTermIn(all_text, ExerciseTerms),
                AnyTermIn(all_text, ConclusionTerms),
                ComplexityProgressionFrom(cells, 1))

CompleteTutorial == <<"c", "o", "m", "p", "l", "e", "t", "e", "_", "t", "u", "t", "o", "r", "i", "a", "l">>

CodeHeavyTutorial == <<"c", "o", "d", "e", "_", "h", "e", "a", "v", "y", "_", "t", "u", "t", "o", "r", "i", "a", "l">>

Notebook == <<"n", "o", "t", "e", "b", "o", "o", "k">>

\* Mutant: five code blocks already make a code-heavy tutorial.
DetermineNotebookType_AtLeastFive(progression, code_blocks) ==
    IF progression.has_exercises THEN TutorialWithExercises
    ELSE IF progression.has_introduction /\ progression.has_conclusions THEN CompleteTutorial
    ELSE IF Len(code_blocks) >= 5 THEN CodeHeavyTutorial
    ELSE IF progression.has_introduction THEN Introduction
    ELSE Notebook

\* _determine_notebook_type
DetermineNotebookType(progression, code_blocks) ==
    IF progression.has_exercises THEN TutorialWithExercises
    ELSE IF progression.has_introduction /\ progression.has_conclusions THEN CompleteTutorial
    ELSE IF Len(code_blocks) > 5 THEN CodeHeavyTutorial
    ELSE IF progression.has_introduction THEN Introduction
    ELSE Notebook

NotebookAnalysis(code_blocks, learning_progression, content_type) == [code_blocks |-> code_blocks, learning_progression |-> learning_progression, content_type |-> content_type]

\* analyze_notebook
AnalyzeNotebook(cells) ==
    LET code_blocks == NotebookExtractCodeBlocks(cells)
        learning_progression == AnalyzeLearningProgression(cells)
    IN  NotebookAnalysis(code_blocks, learning_progression,
                         DetermineNotebookType(learning_progression, code_blocks))

\* The value of nb_analysis before analyze_notebook has returned.
NoNotebookAnalysis == NotebookAnalysis(<<>>, Progression(0, FALSE, FALSE, FALSE, <<>>), Notebook)

(***************************************************************************)
(* State.                                                                  *)
(*   analyze_repository: pc is the position in the call, the other         *)
(*   variables are its arguments and locals; calls and in_flight observe   *)
(*   the backend (calls made per file, calls not yet returned), response   *)
(*   is what generate_content did on the call being handled; result is     *)
(*   the returned mapping and summary what get_analysis_summary makes of   *)
(*   it.  issue_numbers[i] = "" and summary_issue = "" stand for no entry  *)
(*   and None.                                                             *)
(*   _parse_json_response: response_text is the argument, parse_pc the     *)
(*   position ("text", "parsed"), parsed the returned value, analyzed what *)
(*   analyze_content returns for a response with that text.                *)
(*   MarkdownParser: md_content is the content string, md_pc the position  *)
(*   ("empty" before any text is chosen, "text", "analyzed"), md_analysis  *)
(*   what analyze_content_structure returns for it.                        *)
(*   NotebookParser: nb_cells are the cells of the notebook, nb_pc the     *)
(*   position ("cells", "analyzed"), nb_analysis what analyze_notebook     *)
(*   returns for it.                                                       *)
(*   _process_single_content: payload is the processed_content it returns  *)
(*   for the notebook nb_cells or the Markdown content md_content.         *)
(*   sanitize_file_path, chunk_content, retry_on_failure, RateLimiter and  *)
(*   GitHubClient.get_training_content: their arguments, locals and        *)
(*   results, described where their actions are defined.                   *)
(***************************************************************************)
VARIABLES pc, create_issues, create_summary, content_map, processed_content,
          analysis_results, calls, in_flight, response, issue_numbers,
          summary_issue, result, summary, response_text, parse_pc, parsed,
          analyzed, md_content, md_pc, md_analysis, nb_cells, nb_pc,
          nb_analysis, payload, file_path, sanitized, sanitize_pc,
          chunk_input, chunk_size, overlap, chunk_start, chunks, chunk_pc,
          max_retries, delay, backoff, attempt, current_delay, sleeps,
          invocations, retry_outcome, retry_pc, calls_per_minute,
          limiter_calls, clock, let_through, all_files, training_files,
          training_content, filter_pc

orch_vars == <<pc, create_issues, create_summary, content_map,
               processed_content, analysis_results, calls, in_flight,
               response, issue_numbers, summary_issue, result, summary>>

parse_vars == <<response_text, parse_pc, parsed, analyzed>>

md_vars == <<md_content, md_pc, md_analysis>>

nb_vars == <<nb_cells, nb_pc, nb_analysis>>

payload_vars == <<payload>>

sanitize_vars == <<file_path, sanitized, sanitize_pc>>

chunk_vars == <<chunk_input, chunk_size, overlap, chunk_start, chunks, chunk_pc>>

retry_vars == <<max_retries, delay, backoff, attempt, current_delay, sleeps, invocations, retry_outcome, retry_pc>>

limiter_vars == <<calls_per_minute, limiter_calls, clock, let_through>>

filter_vars == <<all_files, training_files, training_content, filter_pc>>

util_vars == <<sanitize_vars, chunk_vars, retry_vars, limiter_vars>>

doc_vars == <<md_vars, nb_vars, payload_vars, filter_vars, util_vars>>

vars == <<orch_vars, parse_vars, doc_vars>>

Outcome(raised, text) == [raised |-> raised, text |-> text]

\* What generate_content can do on one call.
ResponseTexts ==
    { <<>>,
      <<ProseLine>>,
      <<"{}">>,
      <<"5">>,
      <<EmptySuggestionsLine>>,
      <<TwoSuggestionsLine>>,
      <<FenceJsonLine, EmptySuggestionsLine, FenceLine>> }

BackendOutcomes ==
    {Outcome(TRUE, <<>>)} \cup {Outcome(FALSE, t) : t \in ResponseTexts}

\* The value of response while no response is being handled.
NoResponse == Outcome(FALSE, <<>>)

Init ==
    /\ pc = "idle"
    /\ create_issues = FALSE
    /\ create_summary = FALSE
    /\ content_map = <<>>
    /\ processed_content = <<>>
    /\ analysis_results = <<>>
    /\ calls = <<>>
    /\ in_flight = 0
    /\ response = NoResponse
    /\ issue_numbers = <<>>
    /\ summary_issue = ""
    /\ result = PlainResult("pending", "")
    /\ summary = PlainSummary("none", "")
    /\ response_text = <<>>
    /\ parse_pc = "text"
    /\ parsed = PyNone
    /\ analyzed = PyNone
    /\ md_content = <<>>
    /\ md_pc = "empty"
    /\ md_analysis = NoAnalysis
    /\ nb_cells = <<>>
    /\ nb_pc = "cells"
    /\ nb_analysis = NoNotebookAnalysis
    /\ payload = <<>>
    /\ file_path = <<>>
    /\ sanitized = <<>>
    /\ sanitize_pc = "path"
    /\ chunk_input = <<>>
    /\ chunk_size = 0
    /\ overlap = 0
    /\ chunk_start = 0
    /\ chunks = <<>>
    /\ chunk_pc = "content"
    /\ max_retries = 0
    /\ delay = 0
    /\ backoff = 0
    /\ attempt = 0
    /\ current_delay = 0
    /\ sleeps = <<>>
    /\ invocations = <<>>
    /\ retry_outcome = [kind |-> "none", of |-> 0]
    /\ retry_pc = "idle"
    /\ calls_per_minute = 0
    /\ limiter_calls = <<>>
    /\ clock = 0
    /\ let_through = <<>>
    /\ all_files = <<>>
    /\ training_files = <<>>
    /\ training_content = <<>>
    /\ filter_pc = "list"

\* The except clause of analyze_repository, lines 89-95.
Fail ==
    /\ result' = PlainResult("failed", "exception")
    /\ pc' = "done"

\* analyze_repository is called.
Call ==
    /\ pc = "idle"
    /\ \E ci \in BOOLEAN, cs \in BOOLEAN :
          /\ create_issues' = ci
          /\ create_summary' = cs
    /\ pc' = "fetch"
    /\ UNCHANGED <<content_map, processed_content, analysis_results, calls,
                   in_flight, response, issue_numbers, summary_issue, result, summary>>
    /\ UNCHANGED <<parse_vars, doc_vars>>

\* Lines 44-45: get_repository or get_training_content raises.
ProviderFails ==
    /\ pc = "fetch"
    /\ Fail
    /\ UNCHANGED <<create_issues, create_summary, content_map,
                   processed_content, analysis_results, calls, in_flight, response,
                   issue_numbers, summary_issue, summary>>
    /\ UNCHANGED <<parse_vars, doc_vars>>

\* Lines 45-51: the content map arrives; an empty one ends the call.
GetTrainingContent ==
    /\ pc = "fetch"
    /\ \E cm \in ContentMaps :
          /\ content_map' = cm
          /\ calls' = [i \in 1..Len(cm) |-> 0]
          /\ IF cm = <<>>
             THEN /\ result' = PlainResult("absent", "No training content found")
                  /\ pc' = "done"
             ELSE /\ pc' = "process"
                  /\ UNCHANGED result
    /\ UNCHANGED <<create_issues, create_summary, processed_content,
                   analysis_results, in_flight, response, issue_numbers, summary_issue,
                   summary>>
    /\ UNCHANGED <<parse_vars, doc_vars>>

\* _process_all_content, lines 138-146: one turn of the loop.
ProcessFile ==
    /\ pc = "process"
    /\ LET i == Len(processed_content) + 1 IN
          /\ processed_content' = Append(processed_content, ProcessOne(content_map[i]))
          /\ pc' = IF i = Len(content_map) THEN "analyze" ELSE "process"
    /\ UNCHANGED <<create_issues, create_summary, content_map, analysis_results,
                   calls, in_flight, response, issue_numbers, summary_issue, result, summary>>
    /\ UNCHANGED <<parse_vars, doc_vars>>

\* Where _analyze_with_ai goes after recording the result of file i.
AfterFile(i) == IF i = Len(content_map) THEN "issues" ELSE "analyze"

\* _analyze_with_ai, lines 202-215: a turn of the loop that skips the file.
AnalyzeSkip ==
    /\ pc = "analyze"
    /\ LET i == Len(analysis_results) + 1 IN
          /\ SkipsAnalysis(processed_content[i])
          /\ analysis_results' = Append(analysis_results, PyNone)
          /\ pc' = AfterFile(i)
    /\ UNCHANGED <<create_issues, create_summary, content_map,
                   processed_content, calls, in_flight, response, issue_numbers,
                   summary_issue, result, summary>>
    /\ UNCHANGED <<parse_vars, doc_vars>>

\* Lines 217-221 with gemini_client lines 78-85: generate_content is called.
BackendCall ==
    /\ pc = "analyze"
    /\ LET i == Len(analysis_results) + 1 IN
          /\ ~SkipsAnalysis(processed_content[i])
          /\ calls' = [calls EXCEPT ![i] = @ + 1]
          /\ in_flight' = in_flight + 1
          /\ pc' = "backend"
    /\ UNCHANGED <<create_issues, create_summary, content_map,
                   processed_content, analysis_results, response, issue_numbers,
                   summary_issue, result, summary>>
    /\ UNCHANGED <<parse_vars, doc_vars>>

\* generate_content returns a response or raises.
BackendResponds ==
    /\ pc = "backend"
    /\ \E outcome \in BackendOutcomes : response' = outcome
    /\ in_flight' = in_flight - 1
    /\ pc' = "respond"
    /\ UNCHANGED <<create_issues, create_summary, content_map,
                   processed_content, analysis_results, calls, issue_numbers,
                   summary_issue, result, summary>>
    /\ UNCHANGED <<parse_vars, doc_vars>>

\* analyze_content, lines 87-101, turns the response into the file's result,
\* which _analyze_with_ai stores at line 223.
StoreResult ==
    /\ pc = "respond"
    /\ LET i == Len(analysis_results) + 1 IN
          /\ analysis_results' = Append(analysis_results, AnalyzeContent(response))
          /\ pc' = AfterFile(i)
    /\ response' = NoResponse
    /\ UNCHANGED <<create_issues, create_summary, content_map,
                   processed_content, calls, in_flight, issue_numbers,
                   summary_issue, result, summary>>
    /\ UNCHANGED <<parse_vars, doc_vars>>

\* What the issue tracker does for one file: check_existing_issues finds
\* issues ("existing"), or finds none and create_suggestion_issue returns a
\* number ("created") or None ("none"), or one of the two raises ("raise").
IssueOutcomes == {"existing", "created", "none", "raise"}

\* issue_numbers[file_path] after the try block: the first existing number,
\* the created number, or no entry ("").  A number is recorded by where it
\* comes from.
IssueEntry(o) == IF o \in {"existing", "created"} THEN o ELSE ""

\* Where _create_github_issues goes after the turn for file i.
AfterIssue(i) == IF i = Len(content_map) THEN "summary" ELSE "issues"

\* Lines 60-61: create_issues is false, issue_numbers stays empty.
SkipIssues ==
    /\ pc = "issues"
    /\ ~create_issues
    /\ issue_numbers' = [i \in 1..Len(content_map) |-> ""]
    /\ pc' = "summary"
    /\ UNCHANGED <<create_issues, create_summary, content_map,
                   processed_content, analysis_results, calls, in_flight, response,
                   summary_issue, result, summary>>
    /\ UNCHANGED <<parse_vars, doc_vars>>

\* _create_github_issues, lines 237-242: a statement outside the try block
\* raises, which ends analyze_repository in its except clause.
IssueGateRaises ==
    /\ pc = "issues"
    /\ create_issues
    /\ IssueGate(analysis_results[Len(issue_numbers) + 1]) = "raise"
    /\ Fail
    /\ UNCHANGED <<create_issues, create_summary, content_map,
                   processed_content, analysis_results, calls, in_flight, response,
                   issue_numbers, summary_issue, summary>>
    /\ UNCHANGED <<parse_vars, doc_vars>>

\* Lines 237-242: nothing to file for this file.
IssueContinue ==
    /\ pc = "issues"
    /\ create_issues
    /\ LET i == Len(issue_numbers) + 1 IN
          /\ IssueGate(analysis_results[i]) = "continue"
          /\ issue_numbers' = Append(issue_numbers, "")
          /\ pc' = AfterIssue(i)
    /\ UNCHANGED <<create_issues, create_summary, content_map,
                   processed_content, analysis_results, calls, in_flight, response,
                   summary_issue, result, summary>>
    /\ UNCHANGED <<parse_vars, doc_vars>>

\* Lines 244-263: the try block for a file with suggestions.
IssueFile ==
    /\ pc = "issues"
    /\ create_issues
    /\ LET i == Len(issue_numbers) + 1 IN
          /\ IssueGate(analysis_results[i]) = "file"
          /\ \E o \in IssueOutcomes :
                issue_numbers' = Append(issue_numbers, IssueEntry(o))
          /\ pc' = AfterIssue(i)
    /\ UNCHANGED <<create_issues, create_summary, content_map,
                   processed_content, analysis_results, calls, in_flight, response,
                   summary_issue, result, summary>>
    /\ UNCHANGED <<parse_vars, doc_vars>>

\* The filter of _create_summary_issue, lines 272-275, raises.
SummaryFilterRaises(results) ==
    \E i \in 1..Len(results) : HasSuggestions(results[i]) = "raise"

\* results_with_suggestions is not empty.
AnyWithSuggestions(results) ==
    \E i \in 1..Len(results) : HasSuggestions(results[i]) = "yes"

\* Lines 65-67 with _create_summary_issue.
SummaryIssue ==
    /\ pc = "summary"
    /\ IF create_summary /\ SummaryFilterRaises(analysis_results)
       THEN Fail /\ UNCHANGED summary_issue
       ELSE /\ pc' = "compile"
            /\ UNCHANGED result
            /\ IF create_summary /\ AnyWithSuggestions(analysis_results)
               THEN \E n \in {"", "created"} : summary_issue' = n
               ELSE summary_issue' = ""
    /\ UNCHANGED <<create_issues, create_summary, content_map,
                   processed_content, analysis_results, calls, in_flight, response,
                   issue_numbers, summary>>
    /\ UNCHANGED <<parse_vars, doc_vars>>

\* Lines 70-87: the report is compiled and returned.
Compile ==
    /\ pc = "compile"
    /\ LET total == TotalSuggestions(analysis_results) IN
       IF total.raised
       THEN Fail
       ELSE /\ result' = Report("completed", "", Len(content_map), total.n,
                                processed_content, analysis_results,
                                issue_numbers, summary_issue)
            /\ pc' = "done"
    /\ UNCHANGED <<create_issues, create_summary, content_map,
                   processed_content, analysis_results, calls, in_flight, response,
                   issue_numbers, summary_issue, summary>>
    /\ UNCHANGED <<parse_vars, doc_vars>>

\* get_analysis_summary is called on the returned mapping.
SummaryCall ==
    /\ pc = "done"
    /\ summary.state = "none"
    /\ summary' = GetAnalysisSummary(result)
    /\ UNCHANGED <<pc, create_issues, create_summary, content_map,
                   processed_content, analysis_results, calls, in_flight, response,
                   issue_numbers, summary_issue, result>>
    /\ UNCHANGED <<parse_vars, doc_vars>>

Next ==
    \/ Call
    \/ ProviderFails
    \/ GetTrainingContent
    \/ ProcessFile
    \/ AnalyzeSkip
    \/ BackendCall
    \/ BackendResponds
    \/ StoreResult
    \/ SkipIssues
    \/ IssueGateRaises
    \/ IssueContinue
    \/ IssueFile
    \/ SummaryIssue
    \/ Compile
    \/ SummaryCall

Spec == Init /\ [][Next]_vars

(***************************************************************************)
(* _parse_json_response on its own: a response text is built line by line *)
(* and then parsed.                                                        *)
(***************************************************************************)
MaxLines == 5

ResponseLines ==
    {FenceJsonLine, FenceBraceLine, FenceLine, IndentedFenceLine, ProseLine,
     EmptySuggestionsLine, "{", "}"}

AppendLine ==
    /\ parse_pc = "text"
    /\ Len(response_text) < MaxLines
    /\ \E line \in ResponseLines : response_text' = Append(response_text, line)
    /\ UNCHANGED <<parse_pc, parsed, analyzed>>
    /\ UNCHANGED <<orch_vars, doc_vars>>

ParseResponse ==
    /\ parse_pc = "text"
    /\ parsed' = ParseJsonResponse(response_text)
    /\ analyzed' = AnalyzeContent(Outcome(FALSE, response_text))
    /\ parse_pc' = "parsed"
    /\ UNCHANGED response_text
    /\ UNCHANGED <<orch_vars, doc_vars>>

NextParse == AppendLine \/ ParseResponse

SpecParse == Init /\ [][NextParse]_vars

\* The lines of text strictly between lines i and j.
Between(text, i, j) == SubSeq(text, i + 1, j - 1)

\* Lines i..j of text are a fenced block labeled json whose payload is valid
\* JSON: an opening fence line, payload lines, a closing fence line.
IsJsonBlock(text, i, j) ==
    /\ 1 <= i /\ i + 1 < j /\ j <= Len(text)
    /\ text[i] = FenceJsonLine
    /\ text[j] \in {FenceLine, IndentedFenceLine}
    /\ JsonLoads(Between(text, i, j)).ok

\* No line before line i is an opening fence line.
FirstOpening(text, i) ==
    \A k \in 1..(i - 1) : text[k] \notin {FenceJsonLine, FenceBraceLine}

EmptySuggestions == PyDict({<<"suggestions", PyList(<<>>)>>})

\* C10 as stated: whenever the response text is not valid JSON but holds a
\* fenced json block with a valid JSON payload, _parse_json_response returns
\* the direct parse of that payload, whatever precedes or follows the block.
C10_AnyFencedBlockRecovered ==
    parse_pc = "parsed" =>
        \A i \in 1..Len(response_text), j \in 1..Len(response_text) :
            (IsJsonBlock(response_text, i, j) /\ ~JsonLoads(response_text).ok)
                => parsed = JsonLoads(Between(response_text, i, j)).v

\* C10 amended: the same for the first fenced block, that is when no line
\* before the block's opening fence is itself an opening fence line.
C10_FirstFencedBlockRecovered ==
    parse_pc = "parsed" =>
        \A i \in 1..Len(response_text), j \in 1..Len(response_text) :
            (/\ IsJsonBlock(response_text, i, j)
             /\ FirstOpening(response_text, i)
             /\ ~JsonLoads(response_text).ok)
                => parsed = JsonLoads(Between(response_text, i, j)).v

\* C10 witness: a fenced empty suggestion list between two lines of prose has
\* been parsed to the empty suggestion list.
C10_Witness ==
    /\ parse_pc = "parsed"
    /\ response_text =
          <<ProseLine, FenceJsonLine, EmptySuggestionsLine, FenceLine, ProseLine>>
    /\ IsJsonBlock(response_text, 2, 4)
    /\ parsed = EmptySuggestions

(***************************************************************************)
(* Properties of analyze_repository and get_analysis_summary.              *)
(***************************************************************************)
NFiles == Len(content_map)

\* The file's structural processing raises: JSON that loads but is no notebook.
RaisesInProcessing(f) == f.ext = ".ipynb" /\ f.body = "not_notebook"

\* The file's content cannot be loaded as a notebook.
MalformedNotebook(f) == f.ext = ".ipynb" /\ f.body = "invalid_json"

\* File i was processed without error and its trimmed payload is long enough.
Eligible(i) ==
    /\ ~processed_content[i].error
    /\ processed_content[i].payload >= MinContentLength

\* File i was processed without error and its trimmed payload is too short.
SkippedShort(i) ==
    /\ ~processed_content[i].error
    /\ processed_content[i].payload < MinContentLength

RECURSIVE SumFn(_)
SumFn(f) ==
    IF DOMAIN f = {} THEN 0
    ELSE LET k == CHOOSE x \in DOMAIN f : TRUE IN
         f[k] + SumFn([x \in DOMAIN f \ {k} |-> f[x]])

\* The length of the suggestion list a file's result holds, 0 without one.
SuggestionListLen(r) ==
    IF r.t = "obj" /\ HasKey(r, "suggestions")
    THEN Len(Item(r, "suggestions").items) ELSE 0

\* C1 as stated: once the run has ended with some file's structural
\* processing having raised, the status is 'completed', each such file has a
\* None result and no backend call, and every other file was processed and
\* has an entry in the analysis.
C1_ProcessingFailureIsolated ==
    (pc = "done" /\ \E i \in 1..NFiles : RaisesInProcessing(content_map[i])) =>
        /\ result.status = "completed"
        /\ Len(result.ai_analysis) = NFiles
        /\ \A i \in 1..NFiles :
              IF RaisesInProcessing(content_map[i])
              THEN result.ai_analysis[i] = PyNone /\ calls[i] = 0
              ELSE ~result.content_structure[i].error

\* The part of C1 that the code keeps: whatever the run's status, a file whose
\* processing raised is never sent to the backend and gets None, and every
\* other file is processed and reaches its turn in _analyze_with_ai.
C1_IsolationUpToStatus ==
    (pc \in {"issues", "summary", "compile", "done"} /\ NFiles > 0) =>
        /\ Len(analysis_results) = NFiles
        /\ \A i \in 1..NFiles :
              IF RaisesInProcessing(content_map[i])
              THEN analysis_results[i] = PyNone /\ calls[i] = 0
              ELSE ~processed_content[i].error

\* C2 as stated: whatever the backend did, a run over a non-empty content map
\* ends with status 'completed' and a result recorded for every file.
C2_NoErrorAbortsBatch ==
    (pc = "done" /\ NFiles > 0) =>
        /\ result.status = "completed"
        /\ Len(result.ai_analysis) = NFiles

\* C3 as stated: a notebook that cannot be loaded has no parsed structure
\* fields, is never sent to the backend, and its result is None.
C3_MalformedNotebookAbsent ==
    \A i \in 1..NFiles :
        MalformedNotebook(content_map[i]) =>
            /\ calls[i] = 0
            /\ i <= Len(processed_content) =>
                  processed_content[i].structure = {"error"}
            /\ i <= Len(analysis_results) => analysis_results[i] = PyNone

\* C4: the backend is called for a file only if its trimmed payload has at
\* least 100 characters; a file with a shorter payload has no call and a None
\* result; a file that reaches the length check with exactly 100 characters
\* is sent to the backend.
C4_ContentLengthSkip ==
    \A i \in 1..Len(analysis_results) :
        /\ calls[i] > 0 => processed_content[i].payload >= 100
        /\ processed_content[i].payload < 100 =>
              calls[i] = 0 /\ analysis_results[i] = PyNone
        /\ (processed_content[i].payload = 100 /\ ~processed_content[i].error)
              => calls[i] = 1

\* C4 witness: a file of 99 characters was skipped and a file of exactly 100
\* characters was sent to the backend and has a result.
C4_Witness ==
    \E i \in 1..Len(analysis_results), j \in 1..Len(analysis_results) :
        /\ processed_content[i].payload = 99
        /\ calls[i] = 0
        /\ analysis_results[i] = PyNone
        /\ processed_content[j].payload = 100
        /\ calls[j] = 1
        /\ analysis_results[j] # PyNone

\* C5 as stated: the value recorded for a file whose backend call failed
\* differs from the value recorded for a file skipped as too short.
C5_SkipDistinctFromFailure ==
    [][(pc = "respond" /\ response.raised) =>
          \A i \in 1..Len(analysis_results) :
              SkippedShort(i) =>
                  analysis_results'[Len(analysis_results) + 1]
                      # analysis_results[i]]_vars

\* Responses that parse and hold zero suggestions.
ZeroSuggestionTexts ==
    { <<"{}">>,
      <<EmptySuggestionsLine>>,
      <<FenceJsonLine, EmptySuggestionsLine, FenceLine>> }

\* C6 as stated: when the backend returns a parseable payload with zero
\* suggestions the stored result is present and holds no suggestion, and the
\* stored result of a call is None only if the call failed (it raised, or
\* returned empty text, or text that is not JSON).
C6_NoSuggestionsIsNotFailure ==
    [][pc = "respond" =>
          LET r == analysis_results'[Len(analysis_results) + 1] IN
          /\ (~response.raised /\ response.text \in ZeroSuggestionTexts) =>
                /\ r # PyNone
                /\ SuggestionListLen(r) = 0
          /\ r = PyNone =>
                \/ response.raised
                \/ response.text = <<>>
                \/ ~JsonLoads(response.text).ok]_vars

\* C7: get_analysis_summary gives exactly the 'Analysis not completed' error
\* for a result whose status is not 'completed', and statistics only for a
\* completed one.
C7_SummaryErrorUnlessCompleted ==
    summary.state # "none" =>
        /\ result.status # "completed" =>
              summary = PlainSummary("error", "Analysis not completed")
        /\ summary.state = "stats" => result.status = "completed"
        /\ summary.state = "error" => result.status # "completed"

\* C7 witness: the summary of a run that failed after fetching files is the
\* error mapping.
C7_Witness ==
    /\ result.status = "failed"
    /\ NFiles > 0
    /\ summary.state = "error"
    /\ summary.error = "Analysis not completed"

\* C8: in the statistics of a completed report, total_suggestions is the sum
\* of the files' suggestion-list lengths (which is also the report's own
\* total_suggestions), the sum of the suggestion_types
\* counts and the sum of the priority_distribution counts, and
\* files_with_suggestions counts the files holding at least one suggestion.
C8_SummaryCounts ==
    summary.state = "stats" =>
        LET ai == result.ai_analysis IN
        /\ summary.total_suggestions =
              SumSeq([i \in 1..Len(ai) |-> SuggestionListLen(ai[i])])
        /\ summary.total_suggestions = result.total_suggestions
        /\ summary.total_suggestions = SumFn(summary.suggestion_types)
        /\ summary.total_suggestions = SumFn(summary.priority_distribution)
        /\ summary.files_with_suggestions =
              Cardinality({i \in 1..Len(ai) : SuggestionListLen(ai[i]) >= 1})

\* C8 witness: statistics over a report with a None result, an empty
\* suggestion list and two suggestions, one of them without type or priority.
C8_Witness ==
    /\ summary.state = "stats"
    /\ summary.total_suggestions = 2
    /\ summary.files_with_suggestions = 1
    /\ PyStr("unknown") \in DOMAIN summary.suggestion_types
    /\ \E i \in 1..NFiles : result.ai_analysis[i] = PyNone
    /\ \E i \in 1..NFiles : result.ai_analysis[i] = EmptySuggestions

\* C9: files are analyzed one after the other; at most one backend call is in
\* flight; every file already handled has exactly one call if it is eligible
\* and none otherwise, also when its call failed; no file beyond the current
\* one has been called.
C9_OneCallPerEligibleFile ==
    /\ in_flight \in {0, 1}
    /\ in_flight = 1 <=> pc = "backend"
    /\ Len(analysis_results) <= Len(processed_content)
    /\ \A i \in 1..NFiles :
          /\ i <= Len(analysis_results) =>
                calls[i] = IF Eligible(i) THEN 1 ELSE 0
          /\ i = Len(analysis_results) + 1 =>
                calls[i] = IF pc \in {"backend", "respond"} THEN 1 ELSE 0
          /\ i > Len(analysis_results) + 1 => calls[i] = 0

\* C9 witness: a run has ended in which one file's call failed and was not
\* repeated, and another file was never sent to the backend.
C9_Witness ==
    /\ pc = "done"
    /\ result.status = "completed"
    /\ \E i \in 1..NFiles, j \in 1..NFiles :
          /\ Eligible(i) /\ calls[i] = 1 /\ analysis_results[i] = PyNone
          /\ ~Eligible(j) /\ calls[j] = 0

(***************************************************************************)
(* Properties of _parse_json_response on unparseable text.                 *)
(***************************************************************************)
OpeningFenceLines == {FenceJsonLine, FenceBraceLine}

ClosingFenceLines == {FenceLine, IndentedFenceLine}

WithoutOpeningFences(lines) ==
    SelectSeq(lines, LAMBDA l : l \notin OpeningFenceLines)

\* The text holds a parseable fenced payload: the lines that follow some
\* opening fence line, up to a closing fence line or to the end of the text,
\* are valid JSON once further opening fence lines are left out.
HoldsFencedPayload(text) ==
    \E i \in 1..Len(text), j \in 2..(Len(text) + 1) :
        /\ i < j
        /\ text[i] \in OpeningFenceLines
        /\ j = Len(text) + 1 \/ text[j] \in ClosingFenceLines
        /\ JsonLoads(WithoutOpeningFences(Between(text, i, j))).ok

MaxDocLines == 4

\* len(content.split('\n')) of the content chosen so far, 0 before any.
DocLines == IF md_pc = "empty" THEN 0 ELSE CountNewlines(md_content) + 1

AppendTo(content, line) ==
    IF md_pc = "empty" THEN line ELSE content \o <<Newline>> \o line

AppendLineFrom(lines) ==
    /\ md_pc \in {"empty", "text"}
    /\ DocLines < MaxDocLines
    /\ \E line \in lines : md_content' = AppendTo(md_content, line)
    /\ md_pc' = "text"
    /\ UNCHANGED md_analysis
    /\ UNCHANGED <<orch_vars, parse_vars, nb_vars, payload_vars, filter_vars, util_vars>>

AnalyzeMarkdown ==
    /\ md_pc \in {"empty", "text"}
    /\ md_analysis' = AnalyzeContentStructure(md_content)
    /\ md_pc' = "analyzed"
    /\ UNCHANGED md_content
    /\ UNCHANGED <<orch_vars, parse_vars, nb_vars, payload_vars, filter_vars, util_vars>>

HeaderLines ==
    { <<"#", " ", "A">>, <<"#", "#", " ", "B">>, <<"#", "#", "#", "\t", "C", " ">>, <<"#", " ", " ">>, <<"#", "A">>, <<"#", "#", "#", "#", "#", "#", "#", " ", "G">>, <<"x">>, <<>> }

\* Headers of levels 1, 2, 2, 1 on lines 1, 3, 6 and 9.
NestedDocument ==
    StrJoin(<< <<"#", " ", "A">>, <<"x">>, <<"#", "#", " ", "B">>, <<"x">>, <<"x">>, <<"#", "#", " ", "C">>, <<"x">>, <<"x">>, <<"#", " ", "D">>, <<"x">> >>)

\* An introduction with an exercise and its solution.
IntroDocument ==
    StrJoin(<< <<"#", " ", "I", "n", "t", "r", "o">>, <<"x">>, <<"#", "#", " ", "E", "x", "e", "r", "c", "i", "s", "e">>, <<"x">>, <<"#", "#", " ", "S", "o", "l", "u", "t", "i", "o", "n">>, <<"x">> >>)

ExampleDocuments == {NestedDocument, IntroDocument}

AppendHeaderLine == AppendLineFrom(HeaderLines)

LoadExample ==
    /\ md_pc = "empty"
    /\ \E d \in ExampleDocuments : md_content' = d
    /\ md_pc' = "text"
    /\ UNCHANGED md_analysis
    /\ UNCHANGED <<orch_vars, parse_vars, nb_vars, payload_vars, filter_vars, util_vars>>

NextHeaders == AppendHeaderLine \/ LoadExample \/ AnalyzeMarkdown

SpecHeaders == Init /\ [][NextHeaders]_vars

CodeLines ==
    { <<Backquote, Backquote, Backquote, "p", "y">>, <<Backquote, Backquote, Backquote>>, <<" ", " ", " ", " ", "x">>, <<"\t", "x">>, <<" ", " ", " ", " ", " ", "y">>, <<"x">>, <<>> }

AppendCodeLine == AppendLineFrom(CodeLines)

NextCodeBlocks == AppendCodeLine \/ AnalyzeMarkdown

SpecCodeBlocks == Init /\ [][NextCodeBlocks]_vars

FrontmatterLines ==
    { <<"-", "-", "-">>, <<"t", "i", "t", "l", "e", ":", " ", " ", "\"", "A", " ", "b", "\"", " ">>, <<"t", "y", "p", "e", ":", " ", "q", "u", "i", "z">>, <<"#", "#", " ", "E", "x", "e", "r", "c", "i", "s", "e">>, <<"#", "#", " ", "M", "y", " ", "a", "n", "s", "w", "e", "r">>,
      <<"#", " ", "I", "n", "t", "r", "o", "d", "u", "c", "t", "i", "o", "n">>, <<" ", " ", " ", " ", "x">>, <<>> }

AppendFrontmatterLine == AppendLineFrom(FrontmatterLines)

NextFrontmatter == AppendFrontmatterLine \/ AnalyzeMarkdown

SpecFrontmatter == Init /\ [][NextFrontmatter]_vars

(***************************************************************************)
(* Properties of MarkdownParser.                                           *)
(***************************************************************************)
MdLines == StrSplit(md_content)

\* The number of '#' characters the line starts with.
HashCount(line) == PrefixRun(line, {"#"})

\* What follows the leading '#' characters of the line.
AfterHashes(line) == SubSeq(line, HashCount(line) + 1, Len(line))

\* The line is a well-formed ATX header: 1 to 6 '#', then whitespace, then
\* text that is not empty once trimmed.
IsAtxHeaderLine(line) ==
    /\ HashCount(line) \in 1..6
    /\ AfterHashes(line) # <<>>
    /\ Head(AfterHashes(line)) \in {" ", Tab}
    /\ StrStrip(AfterHashes(line)) # <<>>

\* C12 as stated: the headers are, in document order, exactly the lines that
\* are well-formed ATX headers, each with the number of its '#' characters
\* as level, its 1-based line number and its trimmed text.
C12_HeadersAreAtxLines ==
    md_pc = "analyzed" =>
        LET headers == md_analysis.headers
            atx     == {i \in 1..Len(MdLines) : IsAtxHeaderLine(MdLines[i])}
        IN /\ Len(headers) = Cardinality(atx)
           /\ \A k \in 1..Len(headers) :
                 /\ headers[k].line \in atx
                 /\ k > 1 => headers[k - 1].line < headers[k].line
                 /\ headers[k].level = HashCount(MdLines[headers[k].line])
                 /\ headers[k].text
                       = StrStrip(AfterHashes(MdLines[headers[k].line]))

\* The part of C12 that the code keeps: every well-formed ATX header line
\* yields a header with the stated level, line and text, and every header
\* comes from a line of 1 to 6 '#' followed by whitespace.
C12_WellFormedHeadersFound ==
    md_pc = "analyzed" =>
        LET headers == md_analysis.headers IN
        /\ \A i \in 1..Len(MdLines) :
              IsAtxHeaderLine(MdLines[i]) =>
                  \E k \in 1..Len(headers) :
                      headers[k] = Header(HashCount(MdLines[i]),
                                          StrStrip(AfterHashes(MdLines[i])), i)
        /\ \A k \in 1..Len(headers) :
              /\ HashCount(MdLines[headers[k].line]) \in 1..6
              /\ Head(AfterHashes(MdLines[headers[k].line])) \in {" ", Tab}

\* C13: every header has a section that starts on the header's line and ends
\* on the line before the next later header of the same or a smaller level
\* number, or on the last line of the document when there is none.
C13_SectionSpans ==
    md_pc = "analyzed" =>
        LET headers  == md_analysis.headers
            sections == md_analysis.sections
        IN /\ Len(sections) = Len(headers)
           /\ \A i \in 1..Len(headers) :
                 /\ sections[i].start_line = headers[i].line
                 /\ \/ /\ \A j \in (i + 1)..Len(headers) :
                             headers[j].level > headers[i].level
                       /\ sections[i].end_line = Len(MdLines)
                    \/ \E j \in (i + 1)..Len(headers) :
                          /\ headers[j].level <= headers[i].level
                          /\ \A m \in (i + 1)..(j - 1) :
                                headers[m].level > headers[i].level
                          /\ sections[i].end_line = headers[j].line - 1

\* C13 witness: the document with headers of levels 1, 2, 2, 1 on lines 1,
\* 3, 6 and 9 has been analyzed; section B spans lines 3-5, section A 1-8.
C13_Witness ==
    /\ md_pc = "analyzed"
    /\ md_content = NestedDocument
    /\ Len(md_analysis.sections) = 4
    /\ md_analysis.sections[2].title = <<"B">>
    /\ md_analysis.sections[2].start_line = 3
    /\ md_analysis.sections[2].end_line = 5
    /\ md_analysis.sections[1].title = <<"A">>
    /\ md_analysis.sections[1].start_line = 1
    /\ md_analysis.sections[1].end_line = 8

\* C14: analyze_content_structure yields one section per header, in header
\* order, with the header's text as title and the header's level, and the
\* statistics counts are the lengths of the extracted lists; the document
\* '# Intro', '## Exercise', '## Solution' has 3 headers and 3 sections and
\* its Intro section spans the whole document.
C14_OneSectionPerHeader ==
    md_pc = "analyzed" =>
        LET headers  == md_analysis.headers
            sections == md_analysis.sections
            stats    == md_analysis.statistics
        IN /\ Len(sections) = Len(headers)
           /\ \A i \in 1..Len(headers) :
                 /\ sections[i].title = headers[i].text
                 /\ sections[i].level = headers[i].level
           /\ stats.headers = Len(headers)
           /\ stats.sections = Len(sections)
           /\ stats.code_blocks = Len(md_analysis.code_blocks)
           /\ stats.lines = Len(MdLines)
           /\ md_content = IntroDocument =>
                 /\ Len(headers) = 3
                 /\ Len(sections) = 3
                 /\ sections[1].start_line = 1
                 /\ sections[1].end_line = Len(MdLines)

\* C14 witness: the Intro / Exercise / Solution document has been analyzed
\* into three sections, the first spanning all six lines.
C14_Witness ==
    /\ md_pc = "analyzed"
    /\ md_content = IntroDocument
    /\ Len(md_analysis.sections) = 3
    /\ md_analysis.sections[1].title = <<"I", "n", "t", "r", "o">>
    /\ md_analysis.sections[1].end_line = 6
    /\ md_analysis.sections[3].title = <<"S", "o", "l", "u", "t", "i", "o", "n">>
    /\ md_analysis.statistics.sections = 3

\* Some header text holds one of the words, whatever the case of its letters.
SomeHeaderMentions(words) ==
    \E k \in 1..Len(md_analysis.headers), w \in words :
        StrContains(StrLower(md_analysis.headers[k].text), w)

\* C15: the content type is the first that applies of: the declared metadata
\* type verbatim; tutorial_with_exercises for an exercise header and a
\* solution header; tutorial for an exercise header; code_example for any
\* code block; introduction for an introduction header; documentation.  An
\* empty input is documentation.
C15_ContentTypePriority ==
    md_pc = "analyzed" =>
        LET declared  == {p \in md_analysis.metadata : p[1] = <<"t", "y", "p", "e">>}
            exercises == SomeHeaderMentions({<<"e", "x", "e", "r", "c", "i", "s", "e">>, <<"c", "h", "a", "l", "l", "e", "n", "g", "e">>})
            solutions == SomeHeaderMentions({<<"s", "o", "l", "u", "t", "i", "o", "n">>, <<"a", "n", "s", "w", "e", "r">>})
            has_code  == md_analysis.code_blocks # <<>>
            has_intro == SomeHeaderMentions({<<"i", "n", "t", "r", "o", "d", "u", "c", "t", "i", "o", "n">>})
            type      == md_analysis.content_type
        IN /\ declared # {} => \E p \in declared : type = p[2]
           /\ (declared = {} /\ exercises /\ solutions)
                 => type = <<"t", "u", "t", "o", "r", "i", "a", "l", "_", "w", "i", "t", "h", "_", "e", "x", "e", "r", "c", "i", "s", "e", "s">>
           /\ (declared = {} /\ exercises /\ ~solutions) => type = <<"t", "u", "t", "o", "r", "i", "a", "l">>
           /\ (declared = {} /\ ~exercises /\ has_code) => type = <<"c", "o", "d", "e", "_", "e", "x", "a", "m", "p", "l", "e">>
           /\ (declared = {} /\ ~exercises /\ ~has_code /\ has_intro)
                 => type = <<"i", "n", "t", "r", "o", "d", "u", "c", "t", "i", "o", "n">>
           /\ (declared = {} /\ ~exercises /\ ~has_code /\ ~has_intro)
                 => type = <<"d", "o", "c", "u", "m", "e", "n", "t", "a", "t", "i", "o", "n">>
           /\ md_content = <<>> => type = <<"d", "o", "c", "u", "m", "e", "n", "t", "a", "t", "i", "o", "n">>

\* C15 witness: a document declaring type quiz in its frontmatter and holding
\* an exercise header has been classified quiz.
C15_Witness ==
    /\ md_pc = "analyzed"
    /\ md_content = StrJoin(<< <<"-", "-", "-">>, <<"t", "y", "p", "e", ":", " ", "q", "u", "i", "z">>, <<"-", "-", "-">>, <<"#", "#", " ", "E", "x", "e", "r", "c", "i", "s", "e">> >>)
    /\ Len(md_analysis.headers) = 1
    /\ md_analysis.content_type = <<"q", "u", "i", "z">>

\* The key and value the claim expects of a 'key: value' line.
ExpectedPair(line) ==
    CASE line = <<"t", "i", "t", "l", "e", ":", " ", " ", "\"", "A", " ", "b", "\"", " ">> -> << <<"t", "i", "t", "l", "e">>, <<"A", " ", "b">> >>
      [] line = <<"t", "y", "p", "e", ":", " ", "q", "u", "i", "z">> -> << <<"t", "y", "p", "e">>, <<"q", "u", "i", "z">> >>
      [] OTHER -> << <<>>, <<>> >>

IsKeyValueLine(line) == line \in { <<"t", "i", "t", "l", "e", ":", " ", " ", "\"", "A", " ", "b", "\"", " ">>, <<"t", "y", "p", "e", ":", " ", "q", "u", "i", "z">> }

\* Lines 1..j of the document are a well-formed frontmatter block: a ---
\* line, one or more 'key: value' lines, and the first later --- line.
IsFrontmatterBlock(lines, j) ==
    /\ 3 <= j /\ j <= Len(lines)
    /\ lines[1] = <<"-", "-", "-">>
    /\ lines[j] = <<"-", "-", "-">>
    /\ \A k \in 2..(j - 1) : IsKeyValueLine(lines[k])

\* C18 as stated: the metadata is non-empty only when the content starts with
\* a frontmatter block, and for a well-formed block every key of the block
\* maps to its value without the surrounding whitespace and quotes.
C18_FrontmatterMetadata ==
    md_pc = "analyzed" =>
        /\ md_analysis.metadata # {} =>
              /\ MdLines[1] = <<"-", "-", "-">>
              /\ \E j \in 3..Len(MdLines) : MdLines[j] = <<"-", "-", "-">>
        /\ \A j \in 1..Len(MdLines) :
              IsFrontmatterBlock(MdLines, j) =>
                  \A k \in 2..(j - 1) :
                      ExpectedPair(MdLines[k]) \in md_analysis.metadata

\* The part of C18 that the code keeps: the same when a line follows the
\* closing --- line, that is when a newline ends that line.
C18_TerminatedFrontmatter ==
    md_pc = "analyzed" =>
        /\ md_analysis.metadata # {} =>
              /\ MdLines[1] = <<"-", "-", "-">>
              /\ \E j \in 3..Len(MdLines) : MdLines[j] = <<"-", "-", "-">>
        /\ \A j \in 1..(Len(MdLines) - 1) :
              IsFrontmatterBlock(MdLines, j) =>
                  \A k \in 2..(j - 1) :
                      ExpectedPair(MdLines[k]) \in md_analysis.metadata

\* wrapping code in the fence with the language tag: fence, tag, newline,
\* code, newline, fence.
Wrapped(language, code) ==
    Fence \o language \o <<Newline>> \o code \o <<Newline>> \o Fence

\* C19 as stated: wrapping the code of any extracted fenced block in the same
\* fence and extracting the code blocks of that text alone gives exactly one
\* block, with the same language and code.
C19_FencedExtractionIdempotent ==
    md_pc = "analyzed" =>
        \A k \in 1..Len(md_analysis.code_blocks) :
            LET b  == md_analysis.code_blocks[k]
                re == ExtractCodeBlocks(Wrapped(b.language, b.code))
            IN b.type = "fenced" =>
                  /\ Len(re) = 1
                  /\ re[1].language = b.language
                  /\ re[1].code = b.code

\* The part of C19 that the code keeps: the fenced blocks of the wrapped text
\* are exactly one block with the same language and code.
C19_OneFencedBlockAgain ==
    md_pc = "analyzed" =>
        \A k \in 1..Len(md_analysis.code_blocks) :
            LET b  == md_analysis.code_blocks[k]
                re == SelectSeq(ExtractCodeBlocks(Wrapped(b.language, b.code)),
                                LAMBDA r : r.type = "fenced")
            IN b.type = "fenced" =>
                  /\ Len(re) = 1
                  /\ re[1].language = b.language
                  /\ re[1].code = b.code

\* The line starts with four spaces or with a tab.
StartsIndented(line) ==
    \/ Len(line) >= 4 /\ \A c \in 1..4 : line[c] = " "
    \/ Len(line) >= 1 /\ line[1] = Tab

\* The line without its first indentation unit.
WithoutIndent(line) ==
    IF line[1] = Tab THEN Tail(line) ELSE Tail(Tail(Tail(Tail(line))))

\* Lines a..b are a maximal run of indented lines.
IsIndentedRun(lines, a, b) ==
    /\ 1 <= a /\ a <= b /\ b <= Len(lines)
    /\ \A k \in a..b : StartsIndented(lines[k])
    /\ a = 1 \/ ~StartsIndented(lines[a - 1])
    /\ b = Len(lines) \/ ~StartsIndented(lines[b + 1])

\* C20: the indented blocks are, in order, one per maximal run of indented
\* lines, each with the run's first line number and the run's lines without
\* one indentation unit; a run at the end of the input is emitted too.
C20_IndentedRuns ==
    md_pc = "analyzed" =>
        LET blocks == SelectSeq(md_analysis.code_blocks,
                                LAMBDA r : r.type = "indented")
            starts == {a \in 1..Len(MdLines) :
                          \E b \in a..Len(MdLines) : IsIndentedRun(MdLines, a, b)}
        IN /\ Len(blocks) = Cardinality(starts)
           /\ \A k \in 1..Len(blocks) :
                 /\ k > 1 => blocks[k - 1].line < blocks[k].line
                 /\ \E b \in blocks[k].line..Len(MdLines) :
                       /\ IsIndentedRun(MdLines, blocks[k].line, b)
                       /\ blocks[k].code =
                             StrJoin([n \in 1..(b - blocks[k].line + 1) |->
                                 WithoutIndent(MdLines[blocks[k].line + n - 1])])

\* C20 witness: two indented runs separated by a plain line, the second one
\* reaching the end of the input, have given two blocks on lines 1 and 4.
C20_Witness ==
    /\ md_pc = "analyzed"
    /\ md_content = StrJoin(<< <<" ", " ", " ", " ", "x">>, <<" ", " ", " ", " ", " ", "y">>, <<"x">>, <<"\t", "x">> >>)
    /\ Len(md_analysis.code_blocks) = 2
    /\ md_analysis.code_blocks[1] =
          CodeBlock(<<"t", "e", "x", "t">>, StrJoin(<< <<"x">>, <<" ", "y">> >>), 1, "indented")
    /\ md_analysis.code_blocks[2] = CodeBlock(<<"t", "e", "x", "t">>, <<"x">>, 4, "indented")

(***************************************************************************)
(* NotebookParser on its own: a notebook is built cell by cell, or one     *)
(* code cell line by line, and analyze_notebook is applied to it.          *)
(***************************************************************************)
MaxCells == 6

MaxCodeLines == 11

\* A code cell, a code cell of white space only, and markdown cells that
\* introduce, set an exercise and conclude.
NotebookCells ==
    { Cell("code", <<"x">>), Cell("code", <<" ">>), Cell("markdown", <<"O", "v", "e", "r", "v", "i", "e", "w">>),
      Cell("markdown", <<" ", "T", "r", "y">>), Cell("markdown", <<"W", "r", "a", "p", " ", "u", "p">>) }

AppendCell ==
    /\ nb_pc = "cells"
    /\ Len(nb_cells) < MaxCells
    /\ \E cell \in NotebookCells : nb_cells' = Append(nb_cells, cell)
    /\ UNCHANGED <<nb_pc, nb_analysis>>
    /\ UNCHANGED <<orch_vars, parse_vars, md_vars, payload_vars, filter_vars, util_vars>>

AnalyzeCells ==
    /\ nb_pc = "cells"
    /\ nb_analysis' = AnalyzeNotebook(nb_cells)
    /\ nb_pc' = "analyzed"
    /\ UNCHANGED nb_cells
    /\ UNCHANGED <<orch_vars, parse_vars, md_vars, payload_vars, filter_vars, util_vars>>

NextNotebook == AppendCell \/ AnalyzeCells

SpecNotebook == Init /\ [][NextNotebook]_vars

\* A statement, a line of white space, and a line with a keyword.
PlainSourceLines == { <<"x">>, <<" ">> }

KeywordSourceLines == { <<"i", "f", " ", "y">> }

\* The lines a source may be continued with: at most one keyword line.
SourceLinesAfter(source) ==
    IF AnyTermIn(source, ComplexityKeywords) THEN PlainSourceLines
    ELSE PlainSourceLines \cup KeywordSourceLines

AppendSourceLine ==
    /\ nb_pc = "cells"
    /\ \/ /\ nb_cells = <<>>
          /\ \E line \in SourceLinesAfter(<<>>) :
                nb_cells' = <<Cell("code", line)>>
       \/ /\ Len(nb_cells) = 1
          /\ SourceLines(nb_cells[1].source) < MaxCodeLines
          /\ \E line \in SourceLinesAfter(nb_cells[1].source) :
                nb_cells' = <<Cell("code", nb_cells[1].source \o <<Newline>> \o line)>>
    /\ UNCHANGED <<nb_pc, nb_analysis>>
    /\ UNCHANGED <<orch_vars, parse_vars, md_vars, payload_vars, filter_vars, util_vars>>

NextComplexity == AppendSourceLine \/ AnalyzeCells

SpecComplexity == Init /\ [][NextComplexity]_vars

(***************************************************************************)
(* Claims about NotebookParser.                                            *)
(***************************************************************************)
\* Some markdown cell of the notebook mentions one of the terms, whatever
\* the case of its letters.
SomeMarkdownCellMentions(terms) ==
    \E i \in 1..Len(nb_cells), term \in terms :
        /\ nb_cells[i].cell_type = "markdown"
        /\ StrContains(StrLower(nb_cells[i].source), term)

\* The code cells with something other than white space in them.
NonBlankCodeCells ==
    {i \in 1..Len(nb_cells) :
        /\ nb_cells[i].cell_type = "code"
        /\ \E j \in 1..Len(nb_cells[i].source) : ~IsSpace(nb_cells[i].source[j])}

\* C16: the notebook content type is the first match of: exercises ->
\* tutorial_with_exercises; introduction and conclusions -> complete_tutorial;
\* more than 5 code blocks -> code_heavy_tutorial; introduction ->
\* introduction; otherwise notebook.  The three flags are keyword presence
\* in the lower-cased markdown cells.
C16_NotebookTypePriority ==
    nb_pc = "analyzed" =>
        LET has_introduction == SomeMarkdownCellMentions(IntroductionTerms)
            has_exercises == SomeMarkdownCellMentions(ExerciseTerms)
            has_conclusions == SomeMarkdownCellMentions(ConclusionTerms)
            n_blocks == Cardinality(NonBlankCodeCells)
        IN  /\ nb_analysis.learning_progression.has_introduction = has_introduction
            /\ nb_analysis.learning_progression.has_exercises = has_exercises
            /\ nb_analysis.learning_progression.has_conclusions = has_conclusions
            /\ Len(nb_analysis.code_blocks) = n_blocks
            /\ nb_analysis.content_type =
                  IF has_exercises THEN TutorialWithExercises
                  ELSE IF has_introduction /\ has_conclusions THEN CompleteTutorial
                  ELSE IF n_blocks > 5 THEN CodeHeavyTutorial
                  ELSE IF has_introduction THEN Introduction
                  ELSE Notebook

\* Six code blocks and no keyword: a code-heavy tutorial.
C16_Witness ==
    /\ nb_pc = "analyzed"
    /\ Len(nb_analysis.code_blocks) = 6
    /\ ~nb_analysis.learning_progression.has_introduction
    /\ nb_analysis.content_type = CodeHeavyTutorial

\* The number of lines of a source that are not blank.
NonBlankLines(source) ==
    LET lines == StrSplit(source) IN
    Cardinality({k \in 1..Len(lines) :
                    \E j \in 1..Len(lines[k]) : ~IsSpace(lines[k][j])})

HasKeyword(source) == \E keyword \in ComplexityKeywords : StrContains(source, keyword)

\* C17: with n the number of non-blank lines of a code cell's source, the
\* complexity is empty for n = 0, simple for 1 <= n <= 3, intermediate or
\* simple for 4 <= n <= 10 according to whether the source has a keyword,
\* and complex for n > 10.
C17_ComplexityBoundaries ==
    nb_pc = "analyzed" =>
        LET entries == nb_analysis.learning_progression.complexity_progression IN
        /\ Len(entries) = Cardinality({i \in 1..Len(nb_cells) : nb_cells[i].cell_type = "code"})
        /\ \A e \in 1..Len(entries) :
              LET source == nb_cells[entries[e].cell_index + 1].source
                  n == NonBlankLines(source)
              IN  /\ nb_cells[entries[e].cell_index + 1].cell_type = "code"
                  /\ entries[e].complexity =
                        IF n = 0 THEN "empty"
                        ELSE IF n <= 3 THEN "simple"
                        ELSE IF n <= 10
                             THEN IF HasKeyword(source) THEN "intermediate" ELSE "simple"
                        ELSE "complex"

\* Ten non-blank lines among eleven, one of them with a keyword.
C17_Witness ==
    /\ nb_pc = "analyzed"
    /\ Len(nb_cells) = 1
    /\ SourceLines(nb_cells[1].source) = 11
    /\ NonBlankLines(nb_cells[1].source) = 10
    /\ nb_analysis.learning_progression.complexity_progression[1].complexity = "intermediate"

(***************************************************************************)
(* Claims about the mapping analyze_repository returns.                    *)
(***************************************************************************)
\* C27: every call of analyze_repository returns a mapping whose 'status'
\* is 'completed' or 'failed', and a 'failed' one carries an 'error'.
C27_StatusAlwaysPresent ==
    pc = "done" =>
        /\ result.status \in {"completed", "failed"}
        /\ result.status = "failed" => result.error # ""

\* The part of C27 that the code keeps: the call always returns, and only
\* the mapping returned for an empty content map lacks a status.
C27_StatusUnlessNoContent ==
    pc = "done" =>
        /\ result.status \in {"completed", "failed", "absent"}
        /\ result.status = "failed" => result.error # ""
        /\ result.status = "absent" =>
              content_map = <<>> /\ result.error = "No training content found"
        /\ result.status = "completed" => content_map # <<>>

\* C28: in a completed report content_structure and ai_analysis have one
\* entry per file of the content map, none missing and none added, and
\* files_analyzed is the number of files.
C28_ReportCoversContentMap ==
    (pc = "done" /\ result.status = "completed") =>
        /\ DOMAIN result.content_structure = DOMAIN content_map
        /\ DOMAIN result.ai_analysis = DOMAIN content_map
        /\ result.files_analyzed = Cardinality(DOMAIN content_map)

\* A completed report over a file that was analyzed, a file that was
\* skipped and a file whose processing failed.
C28_Witness ==
    /\ pc = "done"
    /\ result.status = "completed"
    /\ \E i, j, k \in DOMAIN content_map :
          /\ result.ai_analysis[i] # PyNone
          /\ ~result.content_structure[j].error
          /\ calls[j] = 0
          /\ result.content_structure[k].error
    /\ result.files_analyzed = 3

\* C29: issues exist only for files with a non-empty suggestion list and
\* only when create_issues is set, and every file gets its turn in
\* _create_github_issues whatever happened to the files before it: the loop
\* is left early at the last file at most.
C29_IssuesPerFileIsolated ==
    (pc = "done" /\ NFiles > 0 /\ Len(analysis_results) = NFiles) =>
        /\ Len(issue_numbers) >= NFiles - 1
        /\ \A i \in 1..Len(issue_numbers) :
              issue_numbers[i] # "" =>
                  create_issues /\ SuggestionListLen(analysis_results[i]) > 0

\* The part of C29 that the code keeps: an issue number is recorded only
\* with create_issues set and only for a file with a non-empty suggestion
\* list, one entry per file, and the loop stops early only at a result that
\* is no mapping.
C29_IssuesOnlyForSuggestions ==
    /\ Len(issue_numbers) <= NFiles
    /\ \A i \in 1..Len(issue_numbers) :
          issue_numbers[i] # "" =>
              create_issues /\ SuggestionListLen(analysis_results[i]) > 0
    /\ (pc = "done" /\ NFiles > 0 /\ Len(issue_numbers) < NFiles) =>
          /\ create_issues
          /\ analysis_results[Len(issue_numbers) + 1].t \notin {"none", "obj"}

\* C30: the sections of any content are well formed and properly nested:
\* start_line <= end_line <= number of lines, start lines strictly
\* increasing, and of two sections the later one starts after the end of the
\* earlier one or lies entirely inside it.
C30_SectionsProperlyNested ==
    md_pc = "analyzed" =>
        LET sections == md_analysis.sections IN
        /\ \A i \in 1..Len(sections) :
              /\ 1 <= sections[i].start_line
              /\ sections[i].start_line <= sections[i].end_line
              /\ sections[i].end_line <= Len(MdLines)
        /\ \A i, j \in 1..Len(sections) :
              i < j =>
                  /\ sections[i].start_line < sections[j].start_line
                  /\ \/ sections[j].start_line > sections[i].end_line
                     \/ sections[j].end_line <= sections[i].end_line

\* A section with a subsection inside it and a section after it.
C30_Witness ==
    /\ md_pc = "analyzed"
    /\ \E i, j, k \in 1..Len(md_analysis.sections) :
          /\ i < j /\ j < k
          /\ md_analysis.sections[j].start_line <= md_analysis.sections[i].end_line
          /\ md_analysis.sections[j].end_line < md_analysis.sections[i].end_line
          /\ md_analysis.sections[k].start_line > md_analysis.sections[i].end_line

(***************************************************************************)
(* utils.sanitize_file_path.  os.path.normpath is the POSIX one: empty and *)
(* '.' components are dropped, 'x/..' is folded, a '..' that would climb   *)
(* above an absolute root is dropped, a leading '..' of a relative path is *)
(* kept, and exactly two leading slashes are kept as two.                  *)
(***************************************************************************)
Slash == "/"

Dot == "."

DotDot == <<Dot, Dot>>

\* path.split('/')
RECURSIVE PathSplit(_)
PathSplit(path) ==
    LET i == StrFind(path, <<Slash>>, 1) IN
    IF i = 0 THEN <<path>>
    ELSE <<SubSeq(path, 1, i - 1)>> \o PathSplit(SubSeq(path, i + 1, Len(path)))

\* '/'.join(comps)
RECURSIVE PathJoin(_)
PathJoin(comps) ==
    IF comps = <<>> THEN <<>>
    ELSE IF Len(comps) = 1 THEN comps[1]
    ELSE comps[1] \o <<Slash>> \o PathJoin(Tail(comps))

\* The number of leading slashes normpath keeps: 0, 1 or 2.
InitialSlashes(path) ==
    IF ~StartsWith(path, <<Slash>>) THEN 0
    ELSE IF StartsWith(path, <<Slash, Slash>>) /\ ~StartsWith(path, <<Slash, Slash, Slash>>) THEN 2
    ELSE 1

\* The loop of normpath over the components.
RECURSIVE NormComponents(_, _, _)
NormComponents(comps, new_comps, initial_slashes) ==
    IF comps = <<>> THEN new_comps
    ELSE LET comp == Head(comps) IN
         IF comp = <<>> \/ comp = <<Dot>>
         THEN NormComponents(Tail(comps), new_comps, initial_slashes)
         ELSE IF \/ comp # DotDot
                 \/ (initial_slashes = 0 /\ new_comps = <<>>)
                 \/ (new_comps # <<>> /\ new_comps[Len(new_comps)] = DotDot)
         THEN NormComponents(Tail(comps), Append(new_comps, comp), initial_slashes)
         ELSE IF new_comps # <<>>
         THEN NormComponents(Tail(comps), SubSeq(new_comps, 1, Len(new_comps) - 1), initial_slashes)
         ELSE NormComponents(Tail(comps), new_comps, initial_slashes)

\* os.path.normpath(path), line 90
NormPath(path) ==
    IF path = <<>> THEN <<Dot>>
    ELSE LET initial_slashes == InitialSlashes(path)
             joined == PathJoin(NormComponents(PathSplit(path), <<>>, initial_slashes))
             full == [i \in 1..initial_slashes |-> Slash] \o joined
         IN IF full = <<>> THEN <<Dot>> ELSE full

\* The while loop of lines 93-99.
RECURSIVE StripLeading(_)
StripLeading(path) ==
    IF StartsWith(path, <<Slash>>) THEN StripLeading(SubSeq(path, 2, Len(path)))
    ELSE IF StartsWith(path, <<Dot, Dot, Slash>>) THEN StripLeading(SubSeq(path, 4, Len(path)))
    ELSE IF StartsWith(path, <<Dot, Slash>>) THEN StripLeading(SubSeq(path, 3, Len(path)))
    ELSE path

\* sanitize_file_path(file_path)
SanitizeFilePathOf(path) == StripLeading(NormPath(path))

MaxPathLen == 5

PathChars == {Slash, Dot, "a"}

AppendPathChar ==
    /\ sanitize_pc = "path"
    /\ Len(file_path) < MaxPathLen
    /\ \E c \in PathChars : file_path' = Append(file_path, c)
    /\ UNCHANGED <<sanitized, sanitize_pc>>
    /\ UNCHANGED <<orch_vars, parse_vars, md_vars, nb_vars, payload_vars, filter_vars, chunk_vars, retry_vars, limiter_vars>>

SanitizeFilePath ==
    /\ sanitize_pc = "path"
    /\ sanitized' = SanitizeFilePathOf(file_path)
    /\ sanitize_pc' = "sanitized"
    /\ UNCHANGED file_path
    /\ UNCHANGED <<orch_vars, parse_vars, md_vars, nb_vars, payload_vars, filter_vars, chunk_vars, retry_vars, limiter_vars>>

NextSanitize == AppendPathChar \/ SanitizeFilePath

SpecSanitize == Init /\ [][NextSanitize]_vars

\* The components of a path between its slashes.
HasParentComponent(path) ==
    \E i \in 1..Len(path) :
        /\ i + 1 <= Len(path)
        /\ path[i] = Dot /\ path[i + 1] = Dot
        /\ (i = 1 \/ path[i - 1] = Slash)
        /\ (i + 1 = Len(path) \/ path[i + 2] = Slash)

\* C26: the result of sanitize_file_path does not start with '/', './' or
\* '../' and has no '..' component.
C26_NoTraversal ==
    sanitize_pc = "sanitized" =>
        /\ sanitized = <<>> \/ sanitized[1] # Slash
        /\ ~(Len(sanitized) >= 2 /\ SubSeq(sanitized, 1, 2) = <<Dot, Slash>>)
        /\ ~(Len(sanitized) >= 3 /\ SubSeq(sanitized, 1, 3) = <<Dot, Dot, Slash>>)
        /\ ~HasParentComponent(sanitized)

\* The part of C26 that the code keeps: no leading '/', './' or '../', and
\* a '..' component only as the whole result.
C26_NoTraversalButParent ==
    sanitize_pc = "sanitized" =>
        /\ sanitized = <<>> \/ sanitized[1] # Slash
        /\ ~(Len(sanitized) >= 2 /\ SubSeq(sanitized, 1, 2) = <<Dot, Slash>>)
        /\ ~(Len(sanitized) >= 3 /\ SubSeq(sanitized, 1, 3) = <<Dot, Dot, Slash>>)
        /\ HasParentComponent(sanitized) => sanitized = DotDot

(***************************************************************************)
(* utils.chunk_content.  Positions are the 0-based indices of the source;  *)
(* a chunk is recorded with the slice content[start:end] it was cut from.  *)
(***************************************************************************)
\* content[a:b] for 0 <= a
Slice(content, a, b) ==
    SubSeq(content, a + 1, IF b < Len(content) THEN b ELSE Len(content))

\* content.rfind(sub, start, end): the highest index i with start <= i and
\* i + len(sub) <= end at which sub occurs, -1 when there is none.
RFind(content, sub, start, end) ==
    LET hits == {i \in start..(end - Len(sub)) : StartsAt(content, i + 1, sub)} IN
    IF hits = {} THEN -1 ELSE CHOOSE i \in hits : \A j \in hits : j <= i

\* Lines 202-214: where the chunk that starts at start ends.
\* x > start + chunk_size * 0.5 is 2 * x > 2 * start + chunk_size.
ChunkEnd(content, start, size) ==
    LET end == start + size
        para_break == RFind(content, <<Newline, Newline>>, start, end)
        sent_break == RFind(content, <<Dot>>, start, end)
    IN  IF end >= Len(content) THEN end
        ELSE IF 2 * para_break > 2 * start + size THEN para_break
        ELSE IF 2 * sent_break > 2 * start + size THEN sent_break + 1
        ELSE end

Max(a, b) == IF a >= b THEN a ELSE b

\* Line 221: start = max(start + chunk_size - overlap, end)
NextChunkStart(start, end, size, lap) == Max(start + size - lap, end)

Chunk(start, end, text) == [start |-> start, end |-> end, text |-> text]

MaxContentLen == 7

ChunkChars == {"a", Dot, Newline}

ChunkSizes == {4, 6}

AppendContentChar ==
    /\ chunk_pc = "content"
    /\ Len(chunk_input) < MaxContentLen
    /\ \E c \in ChunkChars : chunk_input' = Append(chunk_input, c)
    /\ UNCHANGED <<chunk_size, overlap, chunk_start, chunks, chunk_pc>>
    /\ UNCHANGED <<orch_vars, parse_vars, md_vars, nb_vars, payload_vars, filter_vars, sanitize_vars, retry_vars, limiter_vars>>

\* chunk_content is called, lines 195-199: short content is returned whole.
ChunkContent ==
    /\ chunk_pc = "content"
    /\ \E size \in ChunkSizes : \E lap \in 0..(size - 1) :
          /\ chunk_size' = size
          /\ overlap' = lap
          /\ IF Len(chunk_input) <= size
             THEN /\ chunks' = <<Chunk(0, Len(chunk_input), chunk_input)>>
                  /\ chunk_pc' = "returned"
             ELSE /\ chunks' = <<>>
                  /\ chunk_pc' = "loop"
    /\ chunk_start' = 0
    /\ UNCHANGED chunk_input
    /\ UNCHANGED <<orch_vars, parse_vars, md_vars, nb_vars, payload_vars, filter_vars, sanitize_vars, retry_vars, limiter_vars>>

\* One turn of the while loop, lines 201-224.
ChunkLoop ==
    /\ chunk_pc = "loop"
    /\ LET end == ChunkEnd(chunk_input, chunk_start, chunk_size)
           chunk == StrStrip(Slice(chunk_input, chunk_start, end))
           start == NextChunkStart(chunk_start, end, chunk_size, overlap)
       IN  /\ chunks' = IF chunk # <<>>
                        THEN Append(chunks, Chunk(chunk_start, end, chunk))
                        ELSE chunks
           /\ chunk_start' = start
           /\ chunk_pc' = IF start >= Len(chunk_input) THEN "returned" ELSE "loop"
    /\ UNCHANGED <<chunk_input, chunk_size, overlap>>
    /\ UNCHANGED <<orch_vars, parse_vars, md_vars, nb_vars, payload_vars, filter_vars, sanitize_vars, retry_vars, limiter_vars>>

NextChunk == AppendContentChar \/ ChunkContent \/ ChunkLoop

SpecChunk == Init /\ [][NextChunk]_vars

\* C25: for content longer than chunk_size and 0 <= overlap < chunk_size,
\* every chunk after the first starts no later than where the previous
\* chunk ended, and every position of the content lies inside the span of
\* some chunk.  Stated for the positions that hold something other than
\* white space, so that what strip() removes from a chunk does not count as
\* dropped.
C25_ChunksCoverContent ==
    (chunk_pc = "returned" /\ Len(chunk_input) > chunk_size) =>
        /\ \A k \in 2..Len(chunks) : chunks[k].start <= chunks[k - 1].end
        /\ \A pos \in 0..(Len(chunk_input) - 1) :
              ~IsSpace(chunk_input[pos + 1]) =>
                  \E k \in 1..Len(chunks) :
                      chunks[k].start <= pos /\ pos < chunks[k].end

\* The part of C25 that the code keeps: chunks are cut in order from
\* disjoint slices, each turn of the loop moves start forward, and the
\* characters of a slice that a chunk lacks are white space (content longer
\* than chunk_size).
C25_ChunksInOrder ==
    Len(chunk_input) > chunk_size =>
    /\ \A k \in 1..Len(chunks) :
          /\ chunks[k].start < chunks[k].end
          /\ chunks[k].text = StrStrip(Slice(chunk_input, chunks[k].start, chunks[k].end))
    /\ \A k \in 2..Len(chunks) : chunks[k].start >= chunks[k - 1].end
    /\ chunk_pc = "returned" => chunk_start >= Len(chunk_input) \/ Len(chunk_input) <= chunk_size

\* Every turn of the loop moves start forward, so the loop terminates.
C25_LoopAdvances ==
    [][chunk_pc = "loop" => chunk_start' > chunk_start]_vars

(***************************************************************************)
(* utils.retry_on_failure.  invocations holds, for every call of the       *)
(* wrapped function, whether it returned ("ok") or raised ("raise");       *)
(* sleeps holds the arguments of time.sleep in order; retry_outcome is     *)
(* what the wrapper did: returned the value of invocation number `of`,     *)
(* let the exception of invocation number `of` through, or returned None   *)
(* at line 53.                                                             *)
(***************************************************************************)
RetryOutcome(kind, of) == [kind |-> kind, of |-> of]

\* Line 43: attempt == max_retries - 1
IsLastAttempt(n, retries) == n = retries - 1

\* Mutant: the delay grows by adding the backoff.
NextDelay_Additive(current, factor) == current + factor

\* Line 51: current_delay *= backoff
NextDelay(current, factor) == current * factor

MaxRetries == 3

Delays == {1, 2, 3}

Backoffs == {1, 2, 3}

\* The wrapper is called, line 37.
RetryCall ==
    /\ retry_pc = "idle"
    /\ \E retries \in 0..MaxRetries, d \in Delays, b \in Backoffs :
          /\ max_retries' = retries
          /\ delay' = d
          /\ backoff' = b
          /\ current_delay' = d
    /\ attempt' = 0
    /\ retry_pc' = "loop"
    /\ UNCHANGED <<sleeps, invocations, retry_outcome>>
    /\ UNCHANGED <<orch_vars, parse_vars, md_vars, nb_vars, payload_vars, filter_vars, sanitize_vars, chunk_vars, limiter_vars>>

\* Lines 39-41: the wrapped function returns and so does the wrapper.
InvokeReturns ==
    /\ retry_pc = "loop"
    /\ attempt < max_retries
    /\ invocations' = Append(invocations, "ok")
    /\ retry_outcome' = RetryOutcome("returned", Len(invocations) + 1)
    /\ retry_pc' = "done"
    /\ UNCHANGED <<max_retries, delay, backoff, attempt, current_delay, sleeps>>
    /\ UNCHANGED <<orch_vars, parse_vars, md_vars, nb_vars, payload_vars, filter_vars, sanitize_vars, chunk_vars, limiter_vars>>

\* Lines 42-51: the wrapped function raises.
InvokeRaises ==
    /\ retry_pc = "loop"
    /\ attempt < max_retries
    /\ invocations' = Append(invocations, "raise")
    /\ IF IsLastAttempt(attempt, max_retries)
       THEN /\ retry_outcome' = RetryOutcome("raised", Len(invocations) + 1)
            /\ retry_pc' = "done"
            /\ UNCHANGED <<attempt, current_delay, sleeps>>
       ELSE /\ sleeps' = Append(sleeps, current_delay)
            /\ current_delay' = NextDelay(current_delay, backoff)
            /\ attempt' = attempt + 1
            /\ UNCHANGED <<retry_outcome, retry_pc>>
    /\ UNCHANGED <<max_retries, delay, backoff>>
    /\ UNCHANGED <<orch_vars, parse_vars, md_vars, nb_vars, payload_vars, filter_vars, sanitize_vars, chunk_vars, limiter_vars>>

\* Line 53: range(max_retries) is exhausted.
RetryFallsThrough ==
    /\ retry_pc = "loop"
    /\ attempt >= max_retries
    /\ retry_outcome' = RetryOutcome("returned_none", 0)
    /\ retry_pc' = "done"
    /\ UNCHANGED <<max_retries, delay, backoff, attempt, current_delay, sleeps, invocations>>
    /\ UNCHANGED <<orch_vars, parse_vars, md_vars, nb_vars, payload_vars, filter_vars, sanitize_vars, chunk_vars, limiter_vars>>

NextRetry == RetryCall \/ InvokeReturns \/ InvokeRaises \/ RetryFallsThrough

SpecRetry == Init /\ [][NextRetry]_vars

RECURSIVE Power(_, _)
Power(b, k) == IF k = 0 THEN 1 ELSE b * Power(b, k - 1)

Minute == 60

\* Line 148: the calls younger than one minute.
RecentCalls(recorded, now) ==
    SelectSeq(recorded, LAMBDA call_time : now - call_time < Minute)

\* min(self.calls)
Oldest(recorded) ==
    CHOOSE t \in {recorded[i] : i \in 1..Len(recorded)} :
        \A i \in 1..Len(recorded) : t <= recorded[i]

\* Lines 151-156: how long wait_if_needed sleeps.
SleepTime(recorded, now, limit) ==
    IF Len(recorded) >= limit /\ Minute - (now - Oldest(recorded)) > 0
    THEN Minute - (now - Oldest(recorded))
    ELSE 0

MaxClock == 120

MaxCalls == 4

ClockSteps == {20, 40}

CallsPerMinute == {1, 2}

NewRateLimiter ==
    /\ calls_per_minute = 0
    /\ \E n \in CallsPerMinute : calls_per_minute' = n
    /\ limiter_calls' = <<>>
    /\ UNCHANGED <<clock, let_through>>
    /\ UNCHANGED <<orch_vars, parse_vars, md_vars, nb_vars, payload_vars, filter_vars, sanitize_vars, chunk_vars, retry_vars>>

\* Time passes between two calls.
ClockAdvances ==
    /\ calls_per_minute > 0
    /\ clock < MaxClock
    /\ \E step \in ClockSteps : clock' = clock + step
    /\ UNCHANGED <<calls_per_minute, limiter_calls, let_through>>
    /\ UNCHANGED <<orch_vars, parse_vars, md_vars, nb_vars, payload_vars, filter_vars, sanitize_vars, chunk_vars, retry_vars>>

\* wait_if_needed, lines 143-159: sleeping moves the clock.
WaitIfNeeded ==
    /\ calls_per_minute > 0
    /\ Len(let_through) < MaxCalls
    /\ LET now == clock
           recent == RecentCalls(limiter_calls, now)
           sleep_time == SleepTime(recent, now, calls_per_minute)
       IN  /\ clock' = now + sleep_time
           /\ limiter_calls' = Append(recent, now)
           /\ let_through' = Append(let_through, now + sleep_time)
    /\ UNCHANGED calls_per_minute
    /\ UNCHANGED <<orch_vars, parse_vars, md_vars, nb_vars, payload_vars, filter_vars, sanitize_vars, chunk_vars, retry_vars>>

NextLimiter == NewRateLimiter \/ ClockAdvances \/ WaitIfNeeded

SpecLimiter == Init /\ [][NextLimiter]_vars

\* C23: at most calls_per_minute calls are let through within any
\* 60-second window.
C23_RateLimitHeld ==
    \A k \in 1..Len(let_through) :
        Cardinality({j \in k..Len(let_through) :
                        let_through[j] - let_through[k] < Minute}) <= calls_per_minute

\* The part of C23 that the code keeps: a call that finds the limit reached
\* is held until the oldest recorded call is a minute old, and the recorded
\* times are those at which the calls arrived.
C23_HeldWhileFull ==
    [][(calls_per_minute > 0 /\ let_through' # let_through) =>
          LET recent == RecentCalls(limiter_calls, clock) IN
          /\ Len(recent) >= calls_per_minute => clock' >= Oldest(recent) + Minute
          /\ Len(recent) < calls_per_minute => clock' = clock
          /\ limiter_calls'[Len(limiter_calls')] = clock]_vars

(***************************************************************************)
(* GitHubClient.filter_training_files and get_training_content             *)
(* (github_client/client.py) with the settings of config/settings.py.       *)
(* A listed file is its path and its listed size in bytes.  pathlib is the  *)
(* POSIX flavour: suffix is taken from the last component, and match() of   *)
(* a one-component pattern compares the last component only.                *)
(***************************************************************************)
FileInfo(path, size) == [path |-> path, size |-> size]

SupportedExtensions == {<<".", "m", "d">>, <<".", "i", "p", "y", "n", "b">>, <<".", "r", "s", "t">>, <<".", "t", "x", "t">>}

IgnorePatterns == {<<"*", ".", "g", "i", "t", "*">>, <<"*", ".", "p", "y", "c">>, <<"_", "_", "p", "y", "c", "a", "c", "h", "e", "_", "_">>, <<"n", "o", "d", "e", "_", "m", "o", "d", "u", "l", "e", "s">>}

MaxFileSizeMb == 10

BytesPerMb == 1024 * 1024

\* Path(path).name
PathName(path) == LET parts == PathSplit(path) IN parts[Len(parts)]

\* Path(path).suffix: from the last dot of the name, unless the dot is the
\* first or the last character of the name.
PathSuffix(path) ==
    LET name == PathName(path)
        dots == {i \in 1..Len(name) : name[i] = Dot}
        i    == IF dots = {} THEN 0 ELSE CHOOSE d \in dots : \A o \in dots : o <= d
    IN  IF 1 < i /\ i < Len(name) THEN SubSeq(name, i, Len(name)) ELSE <<>>

\* fnmatch.fnmatchcase(name, pattern) for patterns of literals and '*'.
RECURSIVE FnMatch(_, _)
FnMatch(name, pattern) ==
    IF pattern = <<>> THEN name = <<>>
    ELSE IF Head(pattern) = "*"
    THEN \E k \in 0..Len(name) : FnMatch(SubSeq(name, k + 1, Len(name)), Tail(pattern))
    ELSE name # <<>> /\ Head(name) = Head(pattern) /\ FnMatch(Tail(name), Tail(pattern))

\* Line 132: any(file_path.match(pattern) for pattern in ignore_patterns)
MatchesIgnorePattern(path) ==
    \E pattern \in IgnorePatterns : FnMatch(PathName(path), pattern)

\* Mutant: the size is compared in whole megabytes.
ExceedsSizeLimit_WholeMb(size) == size \div BytesPerMb > MaxFileSizeMb

\* Lines 136-137: size / (1024 * 1024) > max_file_size_mb
ExceedsSizeLimit(size) == size > MaxFileSizeMb * BytesPerMb

\* The three checks of lines 128-139 let the file through.
IsTrainingFile(file_info) ==
    /\ StrLower(PathSuffix(file_info.path)) \in SupportedExtensions
    /\ ~MatchesIgnorePattern(file_info.path)
    /\ ~ExceedsSizeLimit(file_info.size)

\* filter_training_files
FilterTrainingFiles(files) == SelectSeq(files, IsTrainingFile)

MaxListed == 3

\* What list_repository_files can return, one entry per path.
ListedFiles ==
    { FileInfo(<<"a", ".", "m", "d">>, 1),
      FileInfo(<<"b", ".", "M", "D">>, MaxFileSizeMb * BytesPerMb),
      FileInfo(<<"c", ".", "i", "p", "y", "n", "b">>, MaxFileSizeMb * BytesPerMb + 1),
      FileInfo(<<"d", ".", "p", "y">>, 1),
      FileInfo(<<"e", ".", "g", "i", "t", ".", "m", "d">>, 1),
      FileInfo(<<"n", "o", "d", "e", "_", "m", "o", "d", "u", "l", "e", "s", "/", "f", ".", "t", "x", "t">>, 1),
      FileInfo(<<".", "r", "s", "t">>, 1) }

\* list_repository_files returns one more file.
ListFile ==
    /\ filter_pc = "list"
    /\ Len(all_files) < MaxListed
    /\ \E f \in ListedFiles :
          /\ \A i \in 1..Len(all_files) : all_files[i].path # f.path
          /\ all_files' = Append(all_files, f)
    /\ UNCHANGED <<training_files, training_content, filter_pc>>
    /\ UNCHANGED <<orch_vars, parse_vars, md_vars, nb_vars, payload_vars, util_vars>>

\* get_training_content, line 149.
FilterFiles ==
    /\ filter_pc = "list"
    /\ training_files' = FilterTrainingFiles(all_files)
    /\ filter_pc' = IF FilterTrainingFiles(all_files) = <<>> THEN "done" ELSE "fetch"
    /\ UNCHANGED <<all_files, training_content>>
    /\ UNCHANGED <<orch_vars, parse_vars, md_vars, nb_vars, payload_vars, util_vars>>

\* The files of training_files whose turn in the loop of lines 153-161 is over.
Fetched == Len(training_content)

\* Lines 153-161: get_file_content returns the content or nothing.
\* training_content holds, per file handled, its path or <<>> when no
\* content was stored for it.
FetchFile ==
    /\ filter_pc = "fetch"
    /\ \E retrieved \in BOOLEAN :
          training_content' =
              Append(training_content,
                     IF retrieved THEN training_files[Fetched + 1].path ELSE <<>>)
    /\ filter_pc' = IF Fetched + 1 = Len(training_files) THEN "done" ELSE "fetch"
    /\ UNCHANGED <<all_files, training_files>>
    /\ UNCHANGED <<orch_vars, parse_vars, md_vars, nb_vars, payload_vars, util_vars>>

NextFilter == ListFile \/ FilterFiles \/ FetchFile

SpecFilter == Init /\ [][NextFilter]_vars

\* The listed files with the path.
ListedAs(path) == {i \in 1..Len(all_files) : all_files[i].path = path}

\* The last component of a path.
LastComponent(path) ==
    LET slashes == {i \in 1..Len(path) : path[i] = Slash}
        last == IF slashes = {} THEN 0 ELSE CHOOSE i \in slashes : \A j \in slashes : j <= i
    IN  SubSeq(path, last + 1, Len(path))

EndsWith(s, tail) ==
    Len(s) >= Len(tail) /\ SubSeq(s, Len(s) - Len(tail) + 1, Len(s)) = tail

\* The extension of the path is .md, .ipynb, .rst or .txt in any case.
HasSupportedExtension(path) ==
    \E ext \in {<<".", "m", "d">>, <<".", "i", "p", "y", "n", "b">>, <<".", "r", "s", "t">>, <<".", "t", "x", "t">>} : EndsWith(StrLower(path), ext)

\* The path matches one of *.git*, *.pyc, __pycache__, node_modules.
IsIgnored(path) ==
    \/ StrContains(LastComponent(path), <<".", "g", "i", "t">>)
    \/ EndsWith(LastComponent(path), <<".", "p", "y", "c">>)
    \/ LastComponent(path) = <<"_", "_", "p", "y", "c", "a", "c", "h", "e", "_", "_">>
    \/ LastComponent(path) = <<"n", "o", "d", "e", "_", "m", "o", "d", "u", "l", "e", "s">>

\* C22: every file whose content get_training_content stores was listed,
\* has a supported extension, matches no ignore pattern and has a listed
\* size of at most max_file_size_mb megabytes; filter_training_files
\* returns a subsequence of its input, in order.
C22_ContentWithinBounds ==
    /\ \A k \in 1..Len(training_content) :
          training_content[k] # <<>> =>
              /\ ListedAs(training_content[k]) # {}
              /\ HasSupportedExtension(training_content[k])
              /\ ~IsIgnored(training_content[k])
              /\ \A i \in ListedAs(training_content[k]) :
                    all_files[i].size <= 10 * 1024 * 1024
    /\ filter_pc \in {"fetch", "done"} =>
          \E pick \in [1..Len(training_files) -> 1..Len(all_files)] :
              /\ \A k \in 1..Len(training_files) : training_files[k] = all_files[pick[k]]
              /\ \A k \in 2..Len(training_files) : pick[k - 1] < pick[k]

\* A file of exactly ten megabytes with an upper-case extension is stored,
\* after a listing that also held a file the filter dropped.
C22_Witness ==
    /\ filter_pc = "done"
    /\ Len(training_files) < Len(all_files)
    /\ \E k \in 1..Len(training_content) : training_content[k] = <<"b", ".", "M", "D">>

(***************************************************************************)
(* HSFTrainingAnalyzer._process_single_content: the processed_content of   *)
(* a loadable notebook (lines 159-169) and of a Markdown or RST file       *)
(* (lines 173-176).                                                        *)
(***************************************************************************)
DecimalDigits == <<"0", "1", "2", "3", "4", "5", "6", "7", "8", "9">>

\* str(n) for n >= 0
RECURSIVE IntToStr(_)
IntToStr(n) ==
    IF n < 10 THEN <<DecimalDigits[n + 1]>>
    ELSE IntToStr(n \div 10) \o <<DecimalDigits[(n % 10) + 1]>>

ImportPrefixes == {<<"i", "m", "p", "o", "r", "t", " ">>, <<"f", "r", "o", "m", " ">>}

\* NotebookParser._extract_imports: the stripped lines that start with
\* 'import ' or 'from ', in source order.
RECURSIVE ImportsFrom(_)
ImportsFrom(lines) ==
    IF lines = <<>> THEN <<>>
    ELSE LET line == StrStrip(Head(lines)) IN
         IF \E prefix \in ImportPrefixes : StartsWith(line, prefix)
         THEN <<line>> \o ImportsFrom(Tail(lines))
         ELSE ImportsFrom(Tail(lines))

ExtractImports(code) == ImportsFrom(StrSplit(code))

\* Mutant: every import line is shown.
ShownImports_All(imports) == imports

\* block['imports'][:3]
ShownImports(imports) == SubSeq(imports, 1, IF Len(imports) < 3 THEN Len(imports) ELSE 3)

\* ', '.join(parts)
RECURSIVE CommaJoin(_)
CommaJoin(parts) ==
    IF parts = <<>> THEN <<>>
    ELSE IF Len(parts) = 1 THEN parts[1]
    ELSE parts[1] \o <<",", " ">> \o CommaJoin(Tail(parts))

CodeAnalysisHeader == <<Newline, Newline>> \o <<"<", "!", "-", "-", " ", "C", "o", "d", "e", " ", "A", "n", "a", "l", "y", "s", "i", "s", " ", "-", "-", ">">> \o <<Newline>>

\* Lines 167-169: the comment appended for one code block.
CodeCellComment(block) ==
    <<Newline>> \o <<"<", "!", "-", "-", " ", "C", "o", "d", "e", " ", "C", "e", "l", "l", " ">> \o IntToStr(block.cell_index) \o <<":", " ">>
        \o <<"L", "i", "n", "e", "s", ":", " ">> \o IntToStr(block.lines) \o <<",", " ">>
        \o <<"I", "m", "p", "o", "r", "t", "s", ":", " ">> \o CommaJoin(ShownImports(ExtractImports(block.source))) \o <<" ", "-", "-", ">">> \o <<Newline>>

RECURSIVE CodeCellComments(_)
CodeCellComments(code_blocks) ==
    IF code_blocks = <<>> THEN <<>>
    ELSE CodeCellComment(Head(code_blocks)) \o CodeCellComments(Tail(code_blocks))

\* Lines 161-169: processed_content of a loaded notebook.
NotebookPayload(cells) ==
    LET code_blocks == NotebookExtractCodeBlocks(cells) IN
    ExtractMarkdownContent(cells)
        \o (IF code_blocks # <<>>
            THEN CodeAnalysisHeader \o CodeCellComments(code_blocks)
            ELSE <<>>)

MaxPayloadCells == 3

\* A code cell with four imports, a code cell whose second line is an
\* indented import, a code cell of white space, a markdown cell and a
\* markdown cell of white space.
PayloadCells ==
    { Cell("code", <<"i", "m", "p", "o", "r", "t", " ", "a">> \o <<Newline>> \o <<"f", "r", "o", "m", " ", "b", " ", "i", "m", "p", "o", "r", "t", " ", "c">> \o <<Newline>> \o <<"i", "m", "p", "o", "r", "t", " ", "d">> \o <<Newline>> \o <<"i", "m", "p", "o", "r", "t", " ", "e">>),
      Cell("code", <<"x">> \o <<Newline>> \o <<" ", "i", "m", "p", "o", "r", "t", " ", "a">>),
      Cell("code", <<" ">>),
      Cell("markdown", <<"H", "i", " ">>),
      Cell("markdown", <<" ">>) }

PayloadLines == { <<"#", " ", "A">>, <<" ", "x", " ">>, <<>> }

AppendPayloadCell ==
    /\ nb_pc = "cells"
    /\ md_pc = "empty"
    /\ Len(nb_cells) < MaxPayloadCells
    /\ \E cell \in PayloadCells : nb_cells' = Append(nb_cells, cell)
    /\ UNCHANGED <<nb_pc, nb_analysis, payload>>
    /\ UNCHANGED <<orch_vars, parse_vars, md_vars, filter_vars, util_vars>>

AppendPayloadLine ==
    /\ nb_pc = "cells"
    /\ nb_cells = <<>>
    /\ UNCHANGED payload
    /\ AppendLineFrom(PayloadLines)

\* _process_single_content on an .ipynb file holding the notebook nb_cells.
ProcessNotebookFile ==
    /\ nb_pc = "cells"
    /\ md_pc = "empty"
    /\ nb_analysis' = AnalyzeNotebook(nb_cells)
    /\ payload' = NotebookPayload(nb_cells)
    /\ nb_pc' = "processed"
    /\ UNCHANGED nb_cells
    /\ UNCHANGED <<orch_vars, parse_vars, md_vars, filter_vars, util_vars>>

\* _process_single_content on an .md or .rst file holding md_content.
ProcessMarkdownFile ==
    /\ nb_pc = "cells"
    /\ nb_cells = <<>>
    /\ md_pc \in {"empty", "text"}
    /\ md_analysis' = AnalyzeContentStructure(md_content)
    /\ payload' = md_content
    /\ md_pc' = "processed"
    /\ UNCHANGED md_content
    /\ UNCHANGED <<orch_vars, parse_vars, nb_vars, filter_vars, util_vars>>

NextPayload ==
    \/ AppendPayloadCell
    \/ AppendPayloadLine
    \/ ProcessNotebookFile
    \/ ProcessMarkdownFile

SpecPayload == Init /\ [][NextPayload]_vars

(***************************************************************************)
(* Claims about the payload.                                               *)
(***************************************************************************)
\* The lines of a source that are import lines, white space around them
\* removed.
ImportLines(source) ==
    LET lines == StrSplit(source)
        starts(line) == \/ StartsWith(StrStrip(line), <<"i", "m", "p", "o", "r", "t", " ">>)
                        \/ StartsWith(StrStrip(line), <<"f", "r", "o", "m", " ">>)
        RECURSIVE pick(_)
        pick(k) == IF k > Len(lines) THEN <<>>
                   ELSE IF starts(lines[k]) THEN <<StrStrip(lines[k])>> \o pick(k + 1)
                   ELSE pick(k + 1)
    IN  pick(1)

\* The comment block the payload holds for the cell at position i.
ExpectedComment(i) ==
    LET source == nb_cells[i].source
        imports == ImportLines(source)
        shown == [k \in 1..(IF Len(imports) > 3 THEN 3 ELSE Len(imports)) |-> imports[k]]
    IN  <<Newline>> \o <<"<", "!", "-", "-", " ", "C", "o", "d", "e", " ", "C", "e", "l", "l", " ">> \o IntToStr(i - 1) \o <<":", " ", "L", "i", "n", "e", "s", ":", " ">>
            \o IntToStr(Cardinality({k \in 1..Len(source) : source[k] = Newline}) + 1)
            \o <<",", " ", "I", "m", "p", "o", "r", "t", "s", ":", " ">> \o CommaJoin(shown) \o <<" ", "-", "-", ">">> \o <<Newline>>

\* The comment blocks of the cells at the positions of `which`, in order.
RECURSIVE ExpectedComments(_, _)
ExpectedComments(i, which) ==
    IF i > Len(nb_cells) THEN <<>>
    ELSE IF i \in which THEN ExpectedComment(i) \o ExpectedComments(i + 1, which)
    ELSE ExpectedComments(i + 1, which)

\* The payload is the markdown text followed by the comment blocks of the
\* cells at the positions of `which`.
PayloadIsMarkdownThenComments(which) ==
    payload = ExtractMarkdownContent(nb_cells)
                 \o (IF which = {} THEN <<>>
                     ELSE CodeAnalysisHeader \o ExpectedComments(1, which))

CodeCells == {i \in 1..Len(nb_cells) : nb_cells[i].cell_type = "code"}

\* C21 as stated: for a loadable notebook the payload is the concatenated
\* markdown text followed by one comment block per code cell, giving the
\* cell's index, its line count and at most its first three import lines;
\* for .md and .rst files it is the raw content.
C21_PayloadPerCodeCell ==
    /\ nb_pc = "processed" => PayloadIsMarkdownThenComments(CodeCells)
    /\ md_pc = "processed" => payload = md_content

\* C21 amended: one comment block per code cell whose source is not blank.
C21_PayloadPerNonBlankCodeCell ==
    /\ nb_pc = "processed" => PayloadIsMarkdownThenComments(NonBlankCodeCells)
    /\ md_pc = "processed" => payload = md_content

\* A notebook with markdown text, a code cell with four imports and a code
\* cell of white space has been processed.
C21_Witness ==
    /\ nb_pc = "processed"
    /\ \E i, j, k \in 1..Len(nb_cells) :
          /\ nb_cells[i].cell_type = "markdown"
          /\ Len(ExtractImports(nb_cells[j].source)) = 4
          /\ k \in CodeCells \ NonBlankCodeCells
    /\ payload # <<>>

====
